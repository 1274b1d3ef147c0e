------------------------------ MODULE MCDataset ------------------------------
(* Small files for TLC, and what loading one promises.                     *)
EXTENDS Dataset

MCHeaders ==
  { <<"timestamp", "open", "high", "low", "close">>,
    <<"symbol", "close", "low", "high", "open", "timestamp", "volume">>,
    <<"timestamp", "open", "high", "low", "close", "spread">>,
    <<"timestamp", "open", "high", "low", "close", "open">>,
    <<"timestamp", "open", "", "open", "low">>,
    <<"timestamp", "open", "high", "low">>,
    <<>> }

Good == [width |-> TRUE, time |-> 1, aware |-> TRUE, open |-> 2, high |-> 3, low |-> 1, close |-> 2,
         volume |-> 0, symbol |-> "a"]

(* Four instants,  a naive timestamp, a second symbol, and each defect,    *)
(* also two at a time.                                                     *)
MCRows ==
  { Good, [Good EXCEPT !.time = 2], [Good EXCEPT !.time = 3], [Good EXCEPT !.time = 4],
    [Good EXCEPT !.time = 2, !.aware = FALSE],
    [Good EXCEPT !.time = 3, !.symbol = "b"],
    [Good EXCEPT !.time = 3, !.symbol = ""],
    [Good EXCEPT !.time = 3, !.volume = Unparsed],
    [Good EXCEPT !.width = FALSE, !.time = Blank],
    [Good EXCEPT !.time = Blank], [Good EXCEPT !.time = Unparsed, !.open = 0],
    [Good EXCEPT !.open = Blank], [Good EXCEPT !.high = Unparsed],
    [Good EXCEPT !.time = 2, !.low = Infinite], [Good EXCEPT !.time = 3, !.close = 0],
    [Good EXCEPT !.time = 2, !.high = 1], [Good EXCEPT !.time = 3, !.low = 3],
    [Good EXCEPT !.time = 3, !.low = 2, !.open = 1] }

RowCodes ==
  {"MALFORMED_ROW", "MISSING_VALUE", "INVALID_TIMESTAMP", "MIXED_TIMEZONE_AWARENESS",
   "DUPLICATE_TIMESTAMP", "NON_MONOTONIC_TIMESTAMP", "INVALID_PRICE", "NON_FINITE_PRICE",
   "NON_POSITIVE_PRICE", "INVALID_CANDLE_RANGE", "INVALID_VOLUME", "EMPTY_SYMBOL",
   "MULTIPLE_SYMBOLS"}

(* A row that is a candle by itself, and two rows that may stand in one    *)
(* file, the first before the second.                                      *)
SoundRow(r) ==
  /\ r.width /\ r.time > 0
  /\ r.low > 0 /\ r.low <= r.open /\ r.low <= r.close /\ r.open <= r.high /\ r.close <= r.high
  /\ Has("volume") => r.volume >= 0
  /\ Has("symbol") => r.symbol # ""
Compatible(r, s) ==
  r.time < s.time /\ r.aware = s.aware /\ (Has("symbol") => r.symbol = s.symbol)
WellFormed(s) ==
  /\ \A i \in 1 .. Len(s) : SoundRow(s[i])
  /\ \A j \in 1 .. Len(s) : \A i \in 1 .. j - 1 : Compatible(s[i], s[j])

(* A file is accepted exactly when all its rows are candles and every two  *)
(* of them fit together; a rejected row is the first that breaks this, and *)
(* the code reported for it is about what it breaks.                       *)
VerdictMatchesRows ==
  /\ status \in {"reading", "loaded"} => WellFormed(rows) /\ Len(bars) = Len(rows)
  /\ status \in RowCodes =>
       LET bad == rows[Len(rows)]
           earlier == SubSeq(rows, 1, Len(rows) - 1)
           sameTime == \E i \in 1 .. Len(earlier) : earlier[i].time = bad.time
           later == \E i \in 1 .. Len(earlier) : earlier[i].time > bad.time
           otherMode == \E i \in 1 .. Len(earlier) : earlier[i].aware # bad.aware
           otherSymbol == \E i \in 1 .. Len(earlier) : earlier[i].symbol # bad.symbol
       IN /\ WellFormed(earlier) /\ ~WellFormed(rows)
          /\ status = "DUPLICATE_TIMESTAMP" => sameTime
          /\ status = "NON_MONOTONIC_TIMESTAMP" => later /\ ~sameTime
          /\ status = "MIXED_TIMEZONE_AWARENESS" <=> bad.width /\ bad.time > 0 /\ otherMode
          /\ status = "MULTIPLE_SYMBOLS" => otherSymbol /\ SoundRow(bad)
          /\ status \notin {"DUPLICATE_TIMESTAMP", "NON_MONOTONIC_TIMESTAMP",
                            "MIXED_TIMEZONE_AWARENESS", "MULTIPLE_SYMBOLS"} => ~SoundRow(bad)

(* What is loaded never fails the checks behind it with an error of        *)
(* another class, and is what a session takes: candles in strict time      *)
(* order, read from columns that occur once.                               *)
LoadedDataIsUsable ==
  /\ \A i \in 1 .. Len(bars) : BarAdmissible(bars[i])
  /\ status = "loaded" =>
       /\ DatasetAdmissible
       /\ \A c \in RequiredColumns \cup {"volume", "symbol"} :
            \A i, j \in 1 .. Len(header) : header[i] = c /\ header[j] = c => i = j
       /\ \A c \in RequiredColumns : Has(c)
=============================================================================
