------------------------------- MODULE Dataset -------------------------------
(***************************************************************************)
(* Loading a dataset (data/csv_loader.py load_csv, data/normalization.py   *)
(* normalize_headers, data/validation.py validate_rows): a header, then    *)
(* one row per step, up to the first defect.  The checks of a row run in a *)
(* fixed order and the first that fails names the error.                   *)
(*                                                                         *)
(* A field is what its text parses to: a number, or one of Blank, Unparsed *)
(* and Infinite, and the price 0 is any that is not positive.  A timestamp *)
(* is an instant, a header its case-folded key, "" for a blank one.        *)
(***************************************************************************)
EXTENDS Checks

CONSTANTS
  Headers,  \* the header rows a file may have
  Rows,     \* the data rows
  MaxRows   \* bound on the rows read

Blank == -1
Unparsed == -2
Infinite == -3

RequiredColumns == {"timestamp", "open", "high", "low", "close"}
Prices == Nat \cup {Blank, Unparsed, Infinite}
RowType ==
  [width : BOOLEAN,  \* as many fields as the header
   time : (Nat \ {0}) \cup {Blank, Unparsed}, aware : BOOLEAN,
   open : Prices, high : Prices, low : Prices, close : Prices,
   volume : Int, symbol : STRING]

ASSUME DatasetAssumption ==
  /\ \A h \in Headers : h \in Seq(STRING)
  /\ Rows \subseteq RowType
  /\ MaxRows \in Nat

VARIABLES
  status,   \* "opening", "reading", "loaded" or the code of the error raised
  header,   \* HeaderMap.columns
  bars,     \* bars, whose last timestamp is previous_timestamp
  symbol,   \* "" for None
  report,   \* ValidationReport: row_count, first_timestamp, last_timestamp
  rows      \* history: the rows read

datasetVars == <<status, header, bars, symbol, report, rows>>

DatasetInit ==
  /\ status = "opening"
  /\ header = <<>> /\ bars = <<>> /\ symbol = "" /\ rows = <<>>
  /\ report = [rows |-> 0, first |-> 0, last |-> 0]

Has(column) == \E i \in 1 .. Len(header) : header[i] = column

-----------------------------------------------------------------------------
(* normalize_headers: column by column, then the missing ones. *)
HeaderChecks(h) ==
  LET Defects(i) == << Check("EMPTY_HEADER", h[i] = ""),
                       Check("DUPLICATE_COLUMN", \E j \in 1 .. i - 1 : h[j] = h[i]) >>
      upTo[i \in 0 .. Len(h)] == IF i = 0 THEN <<>> ELSE upTo[i - 1] \o Defects(i)
  IN <<Check("EMPTY_FILE", h = <<>>)>> \o upTo[Len(h)]
     \o <<Check("MISSING_COLUMN", \E c \in RequiredColumns : \A i \in 1 .. Len(h) : h[i] # c)>>

Open(h) ==
  /\ status = "opening"
  /\ header' = h
  /\ status' = IF FirstFailing(HeaderChecks(h)) = "NONE" THEN "reading" ELSE FirstFailing(HeaderChecks(h))
  /\ UNCHANGED <<bars, symbol, report, rows>>

(* A missing, special or unreadable file, and a decoding or quoting error  *)
(* that the reader meets at any row.                                       *)
ReadFails ==
  /\ \/ status = "opening" /\ status' \in {"FILE_NOT_FOUND", "NOT_A_FILE"}
     \/ status \in {"opening", "reading"}
        /\ status' \in {"UNREADABLE_FILE", "INVALID_ENCODING", "MALFORMED_CSV"}
  /\ UNCHANGED <<header, bars, symbol, report, rows>>

-----------------------------------------------------------------------------
(* validate_rows. *)
PriceChecks(price) ==
  << Check("MISSING_VALUE", price = Blank), Check("INVALID_PRICE", price = Unparsed),
     Check("NON_FINITE_PRICE", price = Infinite), Check("NON_POSITIVE_PRICE", price = 0) >>

PreviousOnly(row) ==  \* slip: a timestamp is compared with the previous one, and only for order
  << Check("MIXED_TIMEZONE_AWARENESS", bars # <<>> /\ bars[1].aware # row.aware),
     Check("NON_MONOTONIC_TIMESTAMP", bars # <<>> /\ row.time < bars[Len(bars)].time) >>

TimeChecks(row) ==
  << Check("MIXED_TIMEZONE_AWARENESS", bars # <<>> /\ bars[1].aware # row.aware),
     Check("DUPLICATE_TIMESTAMP", \E i \in 1 .. Len(bars) : bars[i].time = row.time),
     Check("NON_MONOTONIC_TIMESTAMP", bars # <<>> /\ row.time < bars[Len(bars)].time) >>

HighOnly(row) ==  \* slip: the low is compared with the high alone
  << Check("INVALID_CANDLE_RANGE", row.high < row.open \/ row.high < row.close \/ row.high < row.low) >>

RangeChecks(row) ==
  << Check("INVALID_CANDLE_RANGE",
           \/ row.high < row.open \/ row.high < row.close
           \/ row.low > row.open \/ row.low > row.close \/ row.high < row.low) >>

Checks(row) ==
  << Check("MALFORMED_ROW", ~row.width),
     Check("MISSING_VALUE", row.time = Blank), Check("INVALID_TIMESTAMP", row.time = Unparsed) >>
  \o TimeChecks(row)
  \o PriceChecks(row.open) \o PriceChecks(row.high) \o PriceChecks(row.low) \o PriceChecks(row.close)
  \o RangeChecks(row)
  \o << Check("INVALID_VOLUME", Has("volume") /\ row.volume < 0),
        Check("EMPTY_SYMBOL", Has("symbol") /\ row.symbol = ""),
        Check("MULTIPLE_SYMBOLS", Has("symbol") /\ symbol # "" /\ row.symbol # symbol) >>

BarOf(row) ==
  [time |-> row.time, aware |-> row.aware, open |-> row.open, high |-> row.high,
   low |-> row.low, close |-> row.close]

ReadRow(row) ==
  /\ status = "reading"
  /\ Len(rows) < MaxRows
  /\ rows' = Append(rows, row)
  /\ \/ /\ FirstFailing(Checks(row)) = "NONE"
        /\ bars' = Append(bars, BarOf(row))
        /\ symbol' = IF Has("symbol") THEN row.symbol ELSE ""
        /\ UNCHANGED status
     \/ /\ FirstFailing(Checks(row)) # "NONE"
        /\ status' = FirstFailing(Checks(row))
        /\ UNCHANGED <<bars, symbol>>
  /\ UNCHANGED <<header, report>>

(* The end of the file, and the report of load_csv. *)
EndOfFile ==
  /\ status = "reading"
  /\ \/ bars = <<>> /\ status' = "EMPTY_DATASET" /\ UNCHANGED report
     \/ /\ bars # <<>>
        /\ status' = "loaded"
        /\ report' = [rows |-> Len(bars), first |-> bars[1].time, last |-> bars[Len(bars)].time]
  /\ UNCHANGED <<header, bars, symbol, rows>>

DatasetNext ==
  \/ \E h \in Headers : Open(h)
  \/ ReadFails
  \/ \E row \in Rows : ReadRow(row)
  \/ EndOfFile

DatasetSpec == DatasetInit /\ [][DatasetNext]_datasetVars

-----------------------------------------------------------------------------
(* LoadedDataset.__post_init__ and Bar.__post_init__, which run on the     *)
(* result and raise an error of another class.                             *)
BarAdmissible(b) ==
  /\ b.open > 0 /\ b.high > 0 /\ b.low > 0 /\ b.close > 0
  /\ b.low <= b.open /\ b.open <= b.high /\ b.low <= b.close /\ b.close <= b.high

DatasetAdmissible ==
  /\ bars # <<>>
  /\ \A i \in 1 .. Len(bars) : bars[i].aware = bars[1].aware
  /\ \A i \in 2 .. Len(bars) : bars[i - 1].time < bars[i].time
  /\ report = [rows |-> Len(bars), first |-> bars[1].time, last |-> bars[Len(bars)].time]
=============================================================================
