---------------------------- MODULE DatasetProofs ----------------------------
(***************************************************************************)
(* Theorems about the loading of a dataset, for any headers and rows and   *)
(* files of any length: a file is accepted exactly when its rows are       *)
(* candles that fit together, a refused row is the first that does not,    *)
(* and what is loaded can be used.                                         *)
(***************************************************************************)
EXTENDS MCDataset, SeriesProofs

-----------------------------------------------------------------------------
(* The checks of one row.                                                  *)

(* The first three, and the last three. *)
FieldChecks(row) ==
  << Check("MALFORMED_ROW", ~row.width),
     Check("MISSING_VALUE", row.time = Blank), Check("INVALID_TIMESTAMP", row.time = Unparsed) >>
OtherChecks(row) ==
  << Check("INVALID_VOLUME", Has("volume") /\ row.volume < 0),
     Check("EMPTY_SYMBOL", Has("symbol") /\ row.symbol = ""),
     Check("MULTIPLE_SYMBOLS", Has("symbol") /\ symbol # "" /\ row.symbol # symbol) >>

(* No error is no code. *)
LEMMA NoneIsNoRowCode == "NONE" \notin RowCodes
BY DEF RowCodes

(* What each part of them finds. *)
LEMMA FieldVerdict ==
  ASSUME NEW row
  PROVE  /\ FieldChecks(row) \in Seq(CheckType(RowCodes))
         /\ FirstFailing(FieldChecks(row)) = IF ~row.width THEN "MALFORMED_ROW"
                                             ELSE IF row.time = Blank THEN "MISSING_VALUE"
                                             ELSE IF row.time = Unparsed THEN "INVALID_TIMESTAMP" ELSE "NONE"
<1> DEFINE x == ~row.width
           y == row.time = Blank
           z == row.time = Unparsed
<1>1. x \in BOOLEAN /\ y \in BOOLEAN /\ z \in BOOLEAN
  OBVIOUS
<1>2. "MALFORMED_ROW" \in RowCodes /\ "MISSING_VALUE" \in RowCodes /\ "INVALID_TIMESTAMP" \in RowCodes
  BY DEF RowCodes
<1>3. FieldChecks(row) =
        <<Check("MALFORMED_ROW", x), Check("MISSING_VALUE", y), Check("INVALID_TIMESTAMP", z)>>
  BY DEF FieldChecks
<1> HIDE DEF x, y, z
<1>4. /\ FieldChecks(row) \in Seq(CheckType(RowCodes))
      /\ FirstFailing(FieldChecks(row)) = IF x THEN "MALFORMED_ROW" ELSE IF y THEN "MISSING_VALUE"
                                          ELSE IF z THEN "INVALID_TIMESTAMP" ELSE "NONE"
  <2> DEFINE checks == Three("MALFORMED_ROW", x, "MISSING_VALUE", y, "INVALID_TIMESTAMP", z)
  <2>1. /\ checks \in Seq(CheckType(RowCodes))
        /\ FirstFailing(checks) = IF x THEN "MALFORMED_ROW" ELSE IF y THEN "MISSING_VALUE"
                                          ELSE IF z THEN "INVALID_TIMESTAMP" ELSE "NONE"
    BY <1>1, <1>2, FirstOfThree, NoneIsNoRowCode
  <2> HIDE DEF checks
  <2>2. FieldChecks(row) = checks
    BY <1>3 DEF checks, Three, Four
  <2> QED
    BY <2>1, <2>2
<1> QED
  BY <1>4 DEF x, y, z

(* The checks of the timestamp. *)
LEMMA TimeVerdict ==
  ASSUME NEW row
  PROVE  /\ TimeChecks(row) \in Seq(CheckType(RowCodes))
         /\ FirstFailing(TimeChecks(row)) =
              IF bars # <<>> /\ bars[1].aware # row.aware THEN "MIXED_TIMEZONE_AWARENESS"
              ELSE IF \E i \in 1 .. Len(bars) : bars[i].time = row.time THEN "DUPLICATE_TIMESTAMP"
              ELSE IF bars # <<>> /\ row.time < bars[Len(bars)].time THEN "NON_MONOTONIC_TIMESTAMP"
              ELSE "NONE"
<1> DEFINE x == bars # <<>> /\ bars[1].aware # row.aware
           y == \E i \in 1 .. Len(bars) : bars[i].time = row.time
           z == bars # <<>> /\ row.time < bars[Len(bars)].time
<1>1. x \in BOOLEAN /\ y \in BOOLEAN /\ z \in BOOLEAN
  OBVIOUS
<1>2. /\ "MIXED_TIMEZONE_AWARENESS" \in RowCodes /\ "DUPLICATE_TIMESTAMP" \in RowCodes
      /\ "NON_MONOTONIC_TIMESTAMP" \in RowCodes
  BY DEF RowCodes
<1>3. TimeChecks(row) = << Check("MIXED_TIMEZONE_AWARENESS", x), Check("DUPLICATE_TIMESTAMP", y),
                           Check("NON_MONOTONIC_TIMESTAMP", z) >>
  BY DEF TimeChecks
<1> HIDE DEF x, y, z
<1>4. /\ TimeChecks(row) \in Seq(CheckType(RowCodes))
      /\ FirstFailing(TimeChecks(row)) =
           IF x THEN "MIXED_TIMEZONE_AWARENESS" ELSE IF y THEN "DUPLICATE_TIMESTAMP"
           ELSE IF z THEN "NON_MONOTONIC_TIMESTAMP" ELSE "NONE"
  <2> DEFINE checks == Three("MIXED_TIMEZONE_AWARENESS", x, "DUPLICATE_TIMESTAMP", y, "NON_MONOTONIC_TIMESTAMP", z)
  <2>1. /\ checks \in Seq(CheckType(RowCodes))
        /\ FirstFailing(checks) =
           IF x THEN "MIXED_TIMEZONE_AWARENESS" ELSE IF y THEN "DUPLICATE_TIMESTAMP"
           ELSE IF z THEN "NON_MONOTONIC_TIMESTAMP" ELSE "NONE"
    BY <1>1, <1>2, FirstOfThree, NoneIsNoRowCode
  <2> HIDE DEF checks
  <2>2. TimeChecks(row) = checks
    BY <1>3 DEF checks, Three, Four
  <2> QED
    BY <2>1, <2>2
<1> QED
  BY <1>4 DEF x, y, z

PriceCodes == {"MISSING_VALUE", "INVALID_PRICE", "NON_FINITE_PRICE", "NON_POSITIVE_PRICE"}

(* The checks of one price. *)
LEMMA PriceVerdict ==
  ASSUME NEW price \in Prices
  PROVE  /\ PriceChecks(price) \in Seq(CheckType(RowCodes))
         /\ FirstFailing(PriceChecks(price)) \in PriceCodes \cup {"NONE"}
         /\ FirstFailing(PriceChecks(price)) = "NONE" <=> price > 0
<1> DEFINE x == price = Blank
           y == price = Unparsed
           z == price = Infinite
           w == price = 0
<1>1. x \in BOOLEAN /\ y \in BOOLEAN /\ z \in BOOLEAN /\ w \in BOOLEAN
  OBVIOUS
<1>2. /\ "MISSING_VALUE" \in RowCodes /\ "INVALID_PRICE" \in RowCodes
      /\ "NON_FINITE_PRICE" \in RowCodes /\ "NON_POSITIVE_PRICE" \in RowCodes
  BY DEF RowCodes
<1>3. PriceChecks(price) = << Check("MISSING_VALUE", x), Check("INVALID_PRICE", y),
                              Check("NON_FINITE_PRICE", z), Check("NON_POSITIVE_PRICE", w) >>
  BY DEF PriceChecks
<1>4. ~x /\ ~y /\ ~z /\ ~w <=> price > 0
  BY DEF Prices, Blank, Unparsed, Infinite
<1> HIDE DEF x, y, z, w
<1>5. /\ PriceChecks(price) \in Seq(CheckType(RowCodes))
      /\ FirstFailing(PriceChecks(price)) =
           IF x THEN "MISSING_VALUE" ELSE IF y THEN "INVALID_PRICE" ELSE IF z THEN "NON_FINITE_PRICE"
           ELSE IF w THEN "NON_POSITIVE_PRICE" ELSE "NONE"
  <2> DEFINE checks == Four("MISSING_VALUE", x, "INVALID_PRICE", y, "NON_FINITE_PRICE", z, "NON_POSITIVE_PRICE", w)
  <2>1. /\ checks \in Seq(CheckType(RowCodes))
        /\ FirstFailing(checks) =
           IF x THEN "MISSING_VALUE" ELSE IF y THEN "INVALID_PRICE" ELSE IF z THEN "NON_FINITE_PRICE"
           ELSE IF w THEN "NON_POSITIVE_PRICE" ELSE "NONE"
    BY <1>1, <1>2, FirstOfFour, NoneIsNoRowCode, SMTT(30)
  <2> HIDE DEF checks
  <2>2. PriceChecks(price) = checks
    BY <1>3 DEF checks, Three, Four
  <2> QED
    BY <2>1, <2>2
<1> QED
  BY <1>4, <1>5 DEF PriceCodes

(* The check of the candle. *)
LEMMA RangeVerdict ==
  ASSUME NEW row
  PROVE  /\ RangeChecks(row) \in Seq(CheckType(RowCodes))
         /\ FirstFailing(RangeChecks(row)) =
              IF \/ row.high < row.open \/ row.high < row.close
                 \/ row.low > row.open \/ row.low > row.close \/ row.high < row.low
              THEN "INVALID_CANDLE_RANGE" ELSE "NONE"
<1> DEFINE x == \/ row.high < row.open \/ row.high < row.close
                \/ row.low > row.open \/ row.low > row.close \/ row.high < row.low
<1>1. x \in BOOLEAN
  OBVIOUS
<1>2. "INVALID_CANDLE_RANGE" \in RowCodes
  BY DEF RowCodes
<1>3. RangeChecks(row) = <<Check("INVALID_CANDLE_RANGE", x)>>
  BY DEF RangeChecks
<1> HIDE DEF x
<1>4. /\ RangeChecks(row) \in Seq(CheckType(RowCodes))
      /\ FirstFailing(RangeChecks(row)) = IF x THEN "INVALID_CANDLE_RANGE" ELSE "NONE"
  BY <1>1, <1>2, <1>3, FirstOfOne, NoneIsNoRowCode, ZenonT(40)
<1> QED
  BY <1>4 DEF x

(* The checks of the volume and the symbol. *)
LEMMA OtherVerdict ==
  ASSUME NEW row
  PROVE  /\ OtherChecks(row) \in Seq(CheckType(RowCodes))
         /\ FirstFailing(OtherChecks(row)) =
              IF Has("volume") /\ row.volume < 0 THEN "INVALID_VOLUME"
              ELSE IF Has("symbol") /\ row.symbol = "" THEN "EMPTY_SYMBOL"
              ELSE IF Has("symbol") /\ symbol # "" /\ row.symbol # symbol THEN "MULTIPLE_SYMBOLS"
              ELSE "NONE"
<1> DEFINE x == Has("volume") /\ row.volume < 0
           y == Has("symbol") /\ row.symbol = ""
           z == Has("symbol") /\ symbol # "" /\ row.symbol # symbol
<1>1. x \in BOOLEAN /\ y \in BOOLEAN /\ z \in BOOLEAN
  OBVIOUS
<1>2. "INVALID_VOLUME" \in RowCodes /\ "EMPTY_SYMBOL" \in RowCodes /\ "MULTIPLE_SYMBOLS" \in RowCodes
  BY DEF RowCodes
<1>3. OtherChecks(row) =
        <<Check("INVALID_VOLUME", x), Check("EMPTY_SYMBOL", y), Check("MULTIPLE_SYMBOLS", z)>>
  BY DEF OtherChecks
<1> HIDE DEF x, y, z
<1>4. /\ OtherChecks(row) \in Seq(CheckType(RowCodes))
      /\ FirstFailing(OtherChecks(row)) = IF x THEN "INVALID_VOLUME" ELSE IF y THEN "EMPTY_SYMBOL"
                                          ELSE IF z THEN "MULTIPLE_SYMBOLS" ELSE "NONE"
  <2> DEFINE checks == Three("INVALID_VOLUME", x, "EMPTY_SYMBOL", y, "MULTIPLE_SYMBOLS", z)
  <2>1. /\ checks \in Seq(CheckType(RowCodes))
        /\ FirstFailing(checks) = IF x THEN "INVALID_VOLUME" ELSE IF y THEN "EMPTY_SYMBOL"
                                          ELSE IF z THEN "MULTIPLE_SYMBOLS" ELSE "NONE"
    BY <1>1, <1>2, FirstOfThree, NoneIsNoRowCode
  <2> HIDE DEF checks
  <2>2. OtherChecks(row) = checks
    BY <1>3 DEF checks, Three, Four
  <2> QED
    BY <2>1, <2>2
<1> QED
  BY <1>4 DEF x, y, z

(* The parts count in their order. *)
PricesOf(row) == <<row.open, row.high, row.low, row.close>>
(* The first failing part decides: fields, time, prices, range, the rest. *)
LEMMA CheckOrder ==
  ASSUME NEW row \in RowType
  PROVE  LET field == FirstFailing(FieldChecks(row))
             time == FirstFailing(TimeChecks(row))
             range == FirstFailing(RangeChecks(row))
             other == FirstFailing(OtherChecks(row))
             verdict == FirstFailing(Checks(row))
             positive == row.open > 0 /\ row.high > 0 /\ row.low > 0 /\ row.close > 0
         IN /\ field # "NONE" => verdict = field
            /\ field = "NONE" /\ time # "NONE" => verdict = time
            /\ field = "NONE" /\ time = "NONE" /\ ~positive => verdict \in PriceCodes
            /\ field = "NONE" /\ time = "NONE" /\ positive =>
                 verdict = IF range # "NONE" THEN range ELSE other
<1> DEFINE S == Seq(CheckType(RowCodes))
           FF(c) == FirstFailing(c)
           f == FieldChecks(row)
           t == TimeChecks(row)
           o == PriceChecks(row.open)
           h == PriceChecks(row.high)
           l == PriceChecks(row.low)
           c == PriceChecks(row.close)
           r == RangeChecks(row)
           e == OtherChecks(row)
<1>1. Checks(row) = f \o t \o o \o h \o l \o c \o r \o e
  BY DEF Checks, FieldChecks, OtherChecks
<1>2. f \in S /\ t \in S /\ r \in S /\ e \in S
  BY FieldVerdict, TimeVerdict, RangeVerdict, OtherVerdict
<1>3. row.open \in Prices /\ row.high \in Prices /\ row.low \in Prices /\ row.close \in Prices
  BY DEF RowType
<1>4. /\ o \in S /\ FF(o) \in PriceCodes \cup {"NONE"} /\ (FF(o) = "NONE" <=> row.open > 0)
      /\ h \in S /\ FF(h) \in PriceCodes \cup {"NONE"} /\ (FF(h) = "NONE" <=> row.high > 0)
      /\ l \in S /\ FF(l) \in PriceCodes \cup {"NONE"} /\ (FF(l) = "NONE" <=> row.low > 0)
      /\ c \in S /\ FF(c) \in PriceCodes \cup {"NONE"} /\ (FF(c) = "NONE" <=> row.close > 0)
  BY <1>3, PriceVerdict
<1>5. \A s1, s2 \in S : s1 \o s2 \in S /\ FF(s1 \o s2) = IF FF(s1) # "NONE" THEN FF(s1) ELSE FF(s2)
  BY FirstOfConcat, NoneIsNoRowCode
<1> HIDE DEF S, FF, f, t, o, h, l, c, r, e
<1>6. /\ f \o t \in S
      /\ FF(f \o t) = IF FF(f) # "NONE" THEN FF(f) ELSE FF(t)
  BY <1>2, <1>5
<1>7. /\ f \o t \o o \in S
      /\ FF(f \o t \o o) = IF FF(f \o t) # "NONE" THEN FF(f \o t) ELSE FF(o)
  BY <1>4, <1>5, <1>6
<1>8. /\ f \o t \o o \o h \in S
      /\ FF(f \o t \o o \o h) = IF FF(f \o t \o o) # "NONE" THEN FF(f \o t \o o) ELSE FF(h)
  BY <1>4, <1>5, <1>7
<1>9. /\ f \o t \o o \o h \o l \in S
      /\ FF(f \o t \o o \o h \o l) =
           IF FF(f \o t \o o \o h) # "NONE" THEN FF(f \o t \o o \o h) ELSE FF(l)
  BY <1>4, <1>5, <1>8
<1>10. /\ f \o t \o o \o h \o l \o c \in S
       /\ FF(f \o t \o o \o h \o l \o c) =
            IF FF(f \o t \o o \o h \o l) # "NONE" THEN FF(f \o t \o o \o h \o l) ELSE FF(c)
  BY <1>4, <1>5, <1>9
<1>11. /\ f \o t \o o \o h \o l \o c \o r \in S
       /\ FF(f \o t \o o \o h \o l \o c \o r) =
            IF FF(f \o t \o o \o h \o l \o c) # "NONE" THEN FF(f \o t \o o \o h \o l \o c) ELSE FF(r)
  BY <1>2, <1>5, <1>10
<1>12. FF(Checks(row)) = IF FF(f \o t \o o \o h \o l \o c \o r) # "NONE"
                         THEN FF(f \o t \o o \o h \o l \o c \o r) ELSE FF(e)
  BY <1>1, <1>2, <1>5, <1>11
<1>13. "NONE" \notin PriceCodes
  BY DEF PriceCodes
<1>14. /\ FF(f) # "NONE" => FF(Checks(row)) = FF(f)
       /\ FF(f) = "NONE" /\ FF(t) # "NONE" => FF(Checks(row)) = FF(t)
       /\ FF(f) = "NONE" /\ FF(t) = "NONE" /\ ~(row.open > 0 /\ row.high > 0 /\ row.low > 0 /\ row.close > 0) =>
            FF(Checks(row)) \in PriceCodes
       /\ FF(f) = "NONE" /\ FF(t) = "NONE" /\ (row.open > 0 /\ row.high > 0 /\ row.low > 0 /\ row.close > 0) =>
            FF(Checks(row)) = IF FF(r) # "NONE" THEN FF(r) ELSE FF(e)
  BY <1>4, <1>6, <1>7, <1>8, <1>9, <1>10, <1>11, <1>12, <1>13
<1> QED
  BY <1>14 DEF FF, f, t, r, e

-----------------------------------------------------------------------------
(* A row after the rows before it.                                         *)

Bars == {BarOf(row) : row \in Rows}

(* What was read so far: rows that fit together, their bars and symbol. *)
ReadSoFar ==
  /\ WellFormed(rows)
  /\ Len(bars) = Len(rows) /\ \A i \in 1 .. Len(rows) : bars[i] = BarOf(rows[i])
  /\ symbol = IF rows # <<>> /\ Has("symbol") THEN rows[Len(rows)].symbol ELSE ""

(* The fields of a row. *)
LEMMA RowInType ==
  ASSUME NEW row \in Rows
  PROVE  /\ row \in RowType /\ row.time \in Int /\ row.width \in BOOLEAN
         /\ row.open \in Int /\ row.high \in Int /\ row.low \in Int /\ row.close \in Int
         /\ row.volume \in Int /\ (row.time > 0 <=> row.time # Blank /\ row.time # Unparsed)
<1>1. row \in RowType
  BY DatasetAssumption
<1>2. row.time \in (Nat \ {0}) \cup {Blank, Unparsed}
  BY <1>1 DEF RowType
<1>3. row.open \in Prices /\ row.high \in Prices /\ row.low \in Prices /\ row.close \in Prices
  BY <1>1 DEF RowType
<1>4. row.width \in BOOLEAN /\ row.volume \in Int
  BY <1>1 DEF RowType
<1> QED
  BY <1>1, <1>2, <1>3, <1>4 DEF Prices, Blank, Unparsed, Infinite

(* Rows that fit together, and one more. *)
LEMMA OneMoreRow ==
  ASSUME NEW s \in Seq(Rows), NEW row \in Rows
  PROVE  WellFormed(Append(s, row)) <=>
           WellFormed(s) /\ SoundRow(row) /\ \A i \in 1 .. Len(s) : Compatible(s[i], row)
<1> DEFINE t == Append(s, row)
           n == Len(s)
<1>1. n \in Nat /\ Len(t) = n + 1 /\ t[n + 1] = row /\ \A i \in 1 .. n : t[i] = s[i]
  OBVIOUS
<1> HIDE DEF t, n
<1>2. ASSUME WellFormed(t)
      PROVE  WellFormed(s) /\ SoundRow(row) /\ \A i \in 1 .. n : Compatible(s[i], row)
  <2>1. SoundRow(row) /\ \A i \in 1 .. n : SoundRow(s[i])
    BY <1>1, <1>2 DEF WellFormed
  <2>2. \A j \in 1 .. n : \A i \in 1 .. j - 1 : Compatible(s[i], s[j])
    <3> SUFFICES ASSUME NEW j \in 1 .. n, NEW i \in 1 .. j - 1 PROVE Compatible(s[i], s[j])
      OBVIOUS
    <3>1. j \in 1 .. n + 1 /\ i \in 1 .. n
      BY <1>1
    <3>2. Compatible(t[i], t[j])
      BY <1>1, <1>2, <3>1 DEF WellFormed
    <3> QED
      BY <1>1, <3>1, <3>2
  <2>3. \A i \in 1 .. n : Compatible(s[i], row)
    <3> SUFFICES ASSUME NEW i \in 1 .. n PROVE Compatible(s[i], row)
      OBVIOUS
    <3>1. n + 1 \in 1 .. n + 1 /\ i \in 1 .. (n + 1) - 1
      BY <1>1
    <3>2. Compatible(t[i], t[n + 1])
      BY <1>1, <1>2, <3>1 DEF WellFormed
    <3> QED
      BY <1>1, <3>2
  <2> QED
    BY <2>1, <2>2, <2>3 DEF WellFormed, n
<1>3. ASSUME WellFormed(s), SoundRow(row), \A i \in 1 .. n : Compatible(s[i], row)
      PROVE  WellFormed(t)
  <2>1. \A i \in 1 .. n + 1 : SoundRow(t[i])
    <3> SUFFICES ASSUME NEW i \in 1 .. n + 1 PROVE SoundRow(t[i])
      OBVIOUS
    <3>1. i \in 1 .. n \/ i = n + 1
      BY <1>1
    <3> QED
      BY <1>1, <1>3, <3>1 DEF WellFormed, n
  <2>2. \A j \in 1 .. n + 1 : \A i \in 1 .. j - 1 : Compatible(t[i], t[j])
    <3> SUFFICES ASSUME NEW j \in 1 .. n + 1, NEW i \in 1 .. j - 1 PROVE Compatible(t[i], t[j])
      OBVIOUS
    <3>1. i \in 1 .. n /\ (j \in 1 .. n \/ j = n + 1)
      BY <1>1
    <3>2. CASE j = n + 1
      BY <1>1, <1>3, <3>1, <3>2
    <3>3. CASE j \in 1 .. n
      BY <1>1, <1>3, <3>1, <3>3 DEF WellFormed, n
    <3> QED
      BY <3>1, <3>2, <3>3
  <2> QED
    BY <1>1, <2>1, <2>2 DEF WellFormed
<1> QED
  BY <1>2, <1>3 DEF t, n

(* What the fields of a row are by themselves. *)
LEMMA SoundFields ==
  ASSUME NEW row \in Rows
  PROVE  LET range == FirstFailing(RangeChecks(row))
             positive == row.open > 0 /\ row.high > 0 /\ row.low > 0 /\ row.close > 0
         IN /\ FirstFailing(FieldChecks(row)) = "NONE" <=> row.width /\ row.time > 0
            /\ range = "NONE" \/ range = "INVALID_CANDLE_RANGE"
            /\ SoundRow(row) <=> /\ FirstFailing(FieldChecks(row)) = "NONE" /\ positive /\ range = "NONE"
                                 /\ ~(Has("volume") /\ row.volume < 0)
                                 /\ ~(Has("symbol") /\ row.symbol = "")
<1>1. /\ row.time \in Int /\ row.width \in BOOLEAN
      /\ row.open \in Int /\ row.high \in Int /\ row.low \in Int /\ row.close \in Int
      /\ row.volume \in Int /\ (row.time > 0 <=> row.time # Blank /\ row.time # Unparsed)
  BY RowInType
<1>2. FirstFailing(FieldChecks(row)) = "NONE" <=> row.width /\ row.time > 0
  BY <1>1, FieldVerdict
<1>3. /\ FirstFailing(RangeChecks(row)) \in {"NONE", "INVALID_CANDLE_RANGE"}
      /\ FirstFailing(RangeChecks(row)) = "NONE" <=>
           ~(\/ row.high < row.open \/ row.high < row.close
             \/ row.low > row.open \/ row.low > row.close \/ row.high < row.low)
  BY RangeVerdict
<1> DEFINE a == Has("volume") /\ row.volume < 0
           b == Has("symbol") /\ row.symbol = ""
           positive == row.open > 0 /\ row.high > 0 /\ row.low > 0 /\ row.close > 0
           fits == /\ row.low > 0 /\ row.low <= row.open /\ row.low <= row.close
                   /\ row.open <= row.high /\ row.close <= row.high
<1>4. fits <=> positive /\ FirstFailing(RangeChecks(row)) = "NONE"
  BY <1>1, <1>3
<1>5. SoundRow(row) <=> row.width /\ row.time > 0 /\ fits /\ ~a /\ ~b
  <2>1. row.volume >= 0 <=> ~(row.volume < 0)
    BY <1>1
  <2> QED
    BY <2>1 DEF SoundRow
<1>6. SoundRow(row) <=> /\ FirstFailing(FieldChecks(row)) = "NONE" /\ positive
                        /\ FirstFailing(RangeChecks(row)) = "NONE" /\ ~a /\ ~b
  <2> HIDE DEF a, b, fits, positive
  <2> QED
    BY <1>2, <1>4, <1>5
<1> QED
  BY <1>2, <1>3, <1>6

(* No rows, no bars. *)
LEMMA LengthZero ==
  ASSUME NEW S, NEW s \in Seq(S), Len(s) = 0
  PROVE  s = <<>>
OBVIOUS

(* How its time fits the rows before it. *)
LEMMA TimeFits ==
  ASSUME rows \in Seq(Rows), bars \in Seq(Bars), ReadSoFar, NEW row \in Rows
  PROVE  LET time == FirstFailing(TimeChecks(row))
             same == \E i \in 1 .. Len(rows) : rows[i].time = row.time
             later == \E i \in 1 .. Len(rows) : rows[i].time > row.time
             other == \E i \in 1 .. Len(rows) : rows[i].aware # row.aware
         IN /\ time \in {"NONE", "MIXED_TIMEZONE_AWARENESS", "DUPLICATE_TIMESTAMP",
                         "NON_MONOTONIC_TIMESTAMP"}
            /\ time = "MIXED_TIMEZONE_AWARENESS" <=> other
            /\ time = "DUPLICATE_TIMESTAMP" => same
            /\ time = "NON_MONOTONIC_TIMESTAMP" => later /\ ~same
            /\ time = "NONE" <=> \A i \in 1 .. Len(rows) : /\ rows[i].time < row.time
                                                           /\ rows[i].aware = row.aware
<1> DEFINE n == Len(rows)
           same == \E i \in 1 .. n : rows[i].time = row.time
           later == \E i \in 1 .. n : rows[i].time > row.time
           other == \E i \in 1 .. n : rows[i].aware # row.aware
           x == bars # <<>> /\ bars[1].aware # row.aware
           y == \E i \in 1 .. Len(bars) : bars[i].time = row.time
           z == bars # <<>> /\ row.time < bars[Len(bars)].time
<1>1. n \in Nat /\ Len(bars) = n /\ (bars # <<>> <=> n > 0) /\ row.time \in Int
  <2>1. bars = <<>> => Len(bars) = 0
    OBVIOUS
  <2>2. n = 0 => bars = <<>>
    BY LengthZero DEF ReadSoFar
  <2>3. n \in Nat /\ Len(bars) = n
    <3>1. n \in Nat
      OBVIOUS
    <3>2. Len(bars) = Len(rows)
      BY DEF ReadSoFar
    <3> QED
      BY <3>1, <3>2
  <2>4. row.time \in Int
    BY RowInType
  <2> HIDE DEF n
  <2> QED
    BY <2>1, <2>2, <2>3, <2>4
<1>2. \A i \in 1 .. n : /\ rows[i].time \in Int /\ bars[i].time = rows[i].time
                        /\ bars[i].aware = rows[i].aware
  <2> SUFFICES ASSUME NEW i \in 1 .. n
               PROVE  /\ rows[i].time \in Int /\ bars[i].time = rows[i].time
                      /\ bars[i].aware = rows[i].aware
    OBVIOUS
  <2>1. rows[i] \in Rows
    OBVIOUS
  <2>2. bars[i] = BarOf(rows[i])
    BY DEF ReadSoFar
  <2> QED
    BY <2>1, <2>2, RowInType DEF BarOf
<1>3. \A j \in 1 .. n : \A i \in 1 .. j - 1 : rows[i].time < rows[j].time /\ rows[i].aware = rows[j].aware
  BY DEF ReadSoFar, WellFormed, Compatible
<1>4. \A i \in 1 .. n : rows[1].aware = rows[i].aware /\ (i = n \/ rows[i].time < rows[n].time)
  <2> SUFFICES ASSUME NEW i \in 1 .. n
               PROVE  rows[1].aware = rows[i].aware /\ (i = n \/ rows[i].time < rows[n].time)
    OBVIOUS
  <2>1. i = 1 \/ 1 \in 1 .. i - 1
    BY <1>1
  <2>2. i = n \/ (i \in 1 .. n - 1 /\ n \in 1 .. n)
    BY <1>1
  <2> QED
    BY <1>3, <2>1, <2>2
<1> HIDE DEF n
<1>5. x <=> other
  <2>1. 1 \in 1 .. n <=> n > 0
    BY <1>1
  <2>2. \A i \in 1 .. n : 1 \in 1 .. n
    BY <1>1
  <2> QED
    BY <1>1, <1>2, <1>4, <2>1, <2>2
<1>6. y <=> same
  BY <1>1, <1>2
<1>7. z <=> n > 0 /\ row.time < rows[n].time
  <2>1. n > 0 => n \in 1 .. n
    BY <1>1
  <2> QED
    BY <1>1, <1>2, <2>1
<1>8. z => later
  <2>1. n > 0 => n \in 1 .. n /\ rows[n].time \in Int
    BY <1>1, <1>2
  <2> QED
    BY <1>1, <1>7, <2>1
<1>9. ~y /\ ~z <=> \A i \in 1 .. n : rows[i].time < row.time
  <2>1. ASSUME ~y, ~z, NEW i \in 1 .. n
        PROVE  rows[i].time < row.time
    <3>1. n \in 1 .. n /\ rows[n].time \in Int /\ rows[i].time \in Int /\ n > 0
      BY <1>1, <1>2
    <3>2. rows[n].time # row.time
      BY <1>6, <2>1, <3>1
    <3>3. ~(row.time < rows[n].time)
      BY <1>7, <2>1, <3>1
    <3>4. rows[n].time < row.time
      BY <1>1, <3>1, <3>2, <3>3
    <3>5. i = n \/ rows[i].time < rows[n].time
      BY <1>4
    <3> QED
      BY <1>1, <3>1, <3>4, <3>5
  <2>2. ASSUME \A i \in 1 .. n : rows[i].time < row.time
        PROVE  ~y /\ ~z
    <3>1. ~y
      BY <1>1, <1>2, <1>6, <2>2
    <3>2. n > 0 => n \in 1 .. n /\ rows[n].time \in Int
      BY <1>1, <1>2
    <3>3. ~z
      BY <1>1, <1>7, <2>2, <3>2
    <3> QED
      BY <3>1, <3>3
  <2> QED
    BY <2>1, <2>2
<1>10. FirstFailing(TimeChecks(row)) = IF x THEN "MIXED_TIMEZONE_AWARENESS" ELSE IF y THEN "DUPLICATE_TIMESTAMP"
                                       ELSE IF z THEN "NON_MONOTONIC_TIMESTAMP" ELSE "NONE"
  BY TimeVerdict
<1>11. ~other <=> \A i \in 1 .. n : rows[i].aware = row.aware
  OBVIOUS
<1> DEFINE before == \A i \in 1 .. n : rows[i].time < row.time
           alike == \A i \in 1 .. n : rows[i].aware = row.aware
<1>12. before /\ alike <=> \A i \in 1 .. n : rows[i].time < row.time /\ rows[i].aware = row.aware
  OBVIOUS
<1> HIDE DEF x, y, z, same, later, other, before, alike
<1>13. LET time == FirstFailing(TimeChecks(row))
       IN /\ time \in {"NONE", "MIXED_TIMEZONE_AWARENESS", "DUPLICATE_TIMESTAMP",
                       "NON_MONOTONIC_TIMESTAMP"}
          /\ time = "MIXED_TIMEZONE_AWARENESS" <=> other
          /\ time = "DUPLICATE_TIMESTAMP" => same
          /\ time = "NON_MONOTONIC_TIMESTAMP" => later /\ ~same
          /\ time = "NONE" <=> before /\ alike
  BY <1>5, <1>6, <1>8, <1>9, <1>10, <1>11 DEF before, alike
<1> QED
  BY <1>12, <1>13 DEF same, later, other, n

(* How its symbol does. *)
LEMMA SymbolFits ==
  ASSUME rows \in Seq(Rows), ReadSoFar, NEW row \in Rows
  PROVE  LET multiple == Has("symbol") /\ symbol # "" /\ row.symbol # symbol
             alike == Has("symbol") => \A i \in 1 .. Len(rows) : rows[i].symbol = row.symbol
         IN multiple <=> ~alike
<1> DEFINE n == Len(rows)
<1>1. n \in Nat /\ (rows # <<>> <=> n > 0)
  OBVIOUS
<1>2. \A j \in 1 .. n : SoundRow(rows[j]) /\ \A i \in 1 .. j - 1 : Compatible(rows[i], rows[j])
  BY DEF ReadSoFar, WellFormed
<1>3. symbol = IF rows # <<>> /\ Has("symbol") THEN rows[n].symbol ELSE ""
  BY DEF ReadSoFar
<1> HIDE DEF n
<1>4. CASE rows # <<>> /\ Has("symbol")
  <2>1. n \in 1 .. n
    BY <1>1, <1>4
  <2>2. symbol = rows[n].symbol /\ symbol # ""
    BY <1>2, <1>3, <1>4, <2>1 DEF SoundRow
  <2>3. \A i \in 1 .. n : rows[i].symbol = rows[n].symbol
    <3> SUFFICES ASSUME NEW i \in 1 .. n PROVE rows[i].symbol = rows[n].symbol
      OBVIOUS
    <3>1. i = n \/ i \in 1 .. n - 1
      BY <1>1
    <3> QED
      BY <1>2, <1>4, <2>1, <3>1 DEF Compatible
  <2> QED
    BY <1>4, <2>1, <2>2, <2>3 DEF n
<1>5. CASE ~(rows # <<>> /\ Has("symbol"))
  <2>1. symbol = ""
    BY <1>3, <1>5
  <2>2. rows = <<>> => 1 .. n = {}
    BY <1>1
  <2> QED
    BY <1>5, <2>1, <2>2 DEF n
<1> QED
  BY <1>4, <1>5

(* What a code says of the refused row. *)
Blames(earlier, bad, verdict) ==
  LET sameTime == \E i \in 1 .. Len(earlier) : earlier[i].time = bad.time
      later == \E i \in 1 .. Len(earlier) : earlier[i].time > bad.time
      otherMode == \E i \in 1 .. Len(earlier) : earlier[i].aware # bad.aware
      otherSymbol == \E i \in 1 .. Len(earlier) : earlier[i].symbol # bad.symbol
  IN /\ verdict = "DUPLICATE_TIMESTAMP" => sameTime
     /\ verdict = "NON_MONOTONIC_TIMESTAMP" => later /\ ~sameTime
     /\ verdict = "MIXED_TIMEZONE_AWARENESS" <=> bad.width /\ bad.time > 0 /\ otherMode
     /\ verdict = "MULTIPLE_SYMBOLS" => otherSymbol /\ SoundRow(bad)
     /\ verdict \notin {"DUPLICATE_TIMESTAMP", "NON_MONOTONIC_TIMESTAMP",
                        "MIXED_TIMEZONE_AWARENESS", "MULTIPLE_SYMBOLS"} => ~SoundRow(bad)

(* A row is taken exactly when it fits, and the code of a refused one is   *)
(* about what does not.                                                    *)
LEMMA RowVerdict ==
  ASSUME rows \in Seq(Rows), bars \in Seq(Bars), ReadSoFar, NEW row \in Rows
  PROVE  LET verdict == FirstFailing(Checks(row))
         IN /\ verdict = "NONE" <=> WellFormed(Append(rows, row))
            /\ verdict = "NONE" => SoundRow(row)
            /\ verdict # "NONE" => verdict \in RowCodes /\ Blames(rows, row, verdict)
<1> DEFINE verdict == FirstFailing(Checks(row))
           field == FirstFailing(FieldChecks(row))
           time == FirstFailing(TimeChecks(row))
           range == FirstFailing(RangeChecks(row))
           other == FirstFailing(OtherChecks(row))
           positive == row.open > 0 /\ row.high > 0 /\ row.low > 0 /\ row.close > 0
           whole == row.width /\ row.time > 0
           a == Has("volume") /\ row.volume < 0
           b == Has("symbol") /\ row.symbol = ""
           m == Has("symbol") /\ symbol # "" /\ row.symbol # symbol
           sameTime == \E i \in 1 .. Len(rows) : rows[i].time = row.time
           later == \E i \in 1 .. Len(rows) : rows[i].time > row.time
           otherMode == \E i \in 1 .. Len(rows) : rows[i].aware # row.aware
           otherSymbol == \E i \in 1 .. Len(rows) : rows[i].symbol # row.symbol
           before == \A i \in 1 .. Len(rows) : rows[i].time < row.time /\ rows[i].aware = row.aware
           alike == Has("symbol") => \A i \in 1 .. Len(rows) : rows[i].symbol = row.symbol
           fits == \A i \in 1 .. Len(rows) : Compatible(rows[i], row)
<1>1. /\ field # "NONE" => verdict = field
      /\ field = "NONE" /\ time # "NONE" => verdict = time
      /\ field = "NONE" /\ time = "NONE" /\ ~positive => verdict \in PriceCodes
      /\ field = "NONE" /\ time = "NONE" /\ positive => verdict = IF range # "NONE" THEN range ELSE other
  BY RowInType, CheckOrder
<1>2. field \in {"NONE", "MALFORMED_ROW", "MISSING_VALUE", "INVALID_TIMESTAMP"}
  BY FieldVerdict
<1>3. other = IF a THEN "INVALID_VOLUME" ELSE IF b THEN "EMPTY_SYMBOL"
              ELSE IF m THEN "MULTIPLE_SYMBOLS" ELSE "NONE"
  BY OtherVerdict
<1>4. /\ field = "NONE" <=> whole
      /\ range = "NONE" \/ range = "INVALID_CANDLE_RANGE"
      /\ SoundRow(row) <=> field = "NONE" /\ positive /\ range = "NONE" /\ ~a /\ ~b
  BY SoundFields
<1>5. /\ time \in {"NONE", "MIXED_TIMEZONE_AWARENESS", "DUPLICATE_TIMESTAMP", "NON_MONOTONIC_TIMESTAMP"}
      /\ time = "MIXED_TIMEZONE_AWARENESS" <=> otherMode
      /\ time = "DUPLICATE_TIMESTAMP" => sameTime
      /\ time = "NON_MONOTONIC_TIMESTAMP" => later /\ ~sameTime
      /\ time = "NONE" <=> before
  BY TimeFits
<1>6. m <=> ~alike
  BY SymbolFits
<1>7. ~alike => otherSymbol
  OBVIOUS
<1>8. fits <=> before /\ alike
  BY DEF Compatible
<1>9. WellFormed(Append(rows, row)) <=> SoundRow(row) /\ fits
  BY OneMoreRow DEF ReadSoFar
<1>10. Blames(rows, row, verdict) <=>
         /\ verdict = "DUPLICATE_TIMESTAMP" => sameTime
         /\ verdict = "NON_MONOTONIC_TIMESTAMP" => later /\ ~sameTime
         /\ verdict = "MIXED_TIMEZONE_AWARENESS" <=> whole /\ otherMode
         /\ verdict = "MULTIPLE_SYMBOLS" => otherSymbol /\ SoundRow(row)
         /\ verdict \notin {"DUPLICATE_TIMESTAMP", "NON_MONOTONIC_TIMESTAMP",
                            "MIXED_TIMEZONE_AWARENESS", "MULTIPLE_SYMBOLS"} => ~SoundRow(row)
  BY DEF Blames
<1> HIDE DEF verdict, field, time, range, other, positive, whole, a, b, m, sameTime, later, otherMode,
      otherSymbol, before, alike, fits
<1>11. verdict = "NONE" <=> SoundRow(row) /\ fits
  BY <1>1, <1>2, <1>3, <1>4, <1>5, <1>6, <1>8 DEF PriceCodes
<1>12. ASSUME verdict # "NONE"
       PROVE  verdict \in RowCodes /\ Blames(rows, row, verdict)
  <2>1. CASE field # "NONE"
    BY <1>1, <1>2, <1>4, <1>10, <2>1 DEF RowCodes
  <2>2. CASE field = "NONE" /\ time # "NONE"
    BY <1>1, <1>4, <1>5, <1>10, <2>2 DEF RowCodes
  <2>3. CASE field = "NONE" /\ time = "NONE" /\ ~positive
    BY <1>1, <1>4, <1>5, <1>10, <2>3 DEF RowCodes, PriceCodes
  <2>4. CASE field = "NONE" /\ time = "NONE" /\ positive
    BY <1>1, <1>3, <1>4, <1>5, <1>6, <1>7, <1>10, <1>12, <2>4 DEF RowCodes
  <2> QED
    BY <2>1, <2>2, <2>3, <2>4
<1> QED
  BY <1>9, <1>11, <1>12 DEF verdict

-----------------------------------------------------------------------------
(* The header.                                                             *)

(* Every column once, and every required one. *)
HeaderSound(h) ==
  /\ \A i, j \in 1 .. Len(h) : h[i] = h[j] => i = j
  /\ \A c \in RequiredColumns : \E i \in 1 .. Len(h) : h[i] = c

HeaderCodes == {"EMPTY_FILE", "EMPTY_HEADER", "DUPLICATE_COLUMN", "MISSING_COLUMN"}

(* A header is accepted only when it is sound, and refused with a code of its own. *)
LEMMA HeaderVerdict ==
  ASSUME NEW h \in Seq(STRING)
  PROVE  /\ FirstFailing(HeaderChecks(h)) \in HeaderCodes \cup {"NONE"}
         /\ FirstFailing(HeaderChecks(h)) = "NONE" => HeaderSound(h)
<1> DEFINE S == Seq(CheckType(HeaderCodes))
           n == Len(h)
           empty(i) == h[i] = ""
           twice(i) == \E j \in 1 .. i - 1 : h[j] = h[i]
           defects(i) == <<Check("EMPTY_HEADER", empty(i)), Check("DUPLICATE_COLUMN", twice(i))>>
           parts == [i \in 1 .. n |-> defects(i)]
           Loop(upTo) == upTo = [i \in 0 .. Len(h) |-> IF i = 0 THEN <<>> ELSE upTo[i - 1] \o defects(i)]
           chosen == CHOOSE upTo : Loop(upTo)
           none == h = <<>>
           lacks == \E c \in RequiredColumns : \A i \in 1 .. n : h[i] # c
           first == <<Check("EMPTY_FILE", none)>>
           last == <<Check("MISSING_COLUMN", lacks)>>
<1>1. HeaderChecks(h) = first \o chosen[n] \o last
  BY DEF HeaderChecks
<1>2. n \in Nat
  OBVIOUS
<1>3. \A i : empty(i) \in BOOLEAN /\ twice(i) \in BOOLEAN
  OBVIOUS
<1>4. none \in BOOLEAN /\ lacks \in BOOLEAN
  OBVIOUS
<1>5. /\ "EMPTY_FILE" \in HeaderCodes /\ "EMPTY_HEADER" \in HeaderCodes
      /\ "DUPLICATE_COLUMN" \in HeaderCodes /\ "MISSING_COLUMN" \in HeaderCodes /\ "NONE" \notin HeaderCodes
  BY DEF HeaderCodes
<1> HIDE DEF empty, twice, none, lacks
<1>6. ASSUME NEW i
      PROVE  defects(i) \in S /\ (Clean(defects(i)) => ~twice(i))
  <2>1. \A e \in HeaderCodes : \A v \in BOOLEAN :
          Check(e, v) \in CheckType(HeaderCodes) /\ (Check(e, v).fails <=> v)
    BY DEF Check, CheckType
  <2>2. Len(defects(i)) = 2 /\ defects(i)[2] = Check("DUPLICATE_COLUMN", twice(i)) /\ 2 \in 1 .. 2
    OBVIOUS
  <2>3. Clean(defects(i)) => ~defects(i)[2].fails
    BY <2>2 DEF Clean
  <2>4. defects(i) \in S
    BY <1>3, <1>5, <2>1
  <2> HIDE DEF defects, S
  <2> QED
    BY <1>3, <1>5, <2>1, <2>2, <2>3, <2>4
<1>7. \A i \in 1 .. n : parts[i] = defects(i)
  OBVIOUS
<1>8. parts \in [1 .. n -> S]
  <2> HIDE DEF defects, S
  <2> QED
    BY <1>6
<1>9. \A upTo : Loop(upTo) <=> upTo = [i \in 0 .. n |-> IF i = 0 THEN <<>> ELSE upTo[i - 1] \o defects(i)]
  OBVIOUS
<1> HIDE DEF Loop, defects, parts, n, first, last
<1>10. PICK f \in [0 .. n -> S] : Joins(n, f, parts)
  BY <1>2, <1>8, JoinExists DEF S
<1> HIDE DEF S
<1>11. Loop(f)
  <2>1. f[0] = <<>> /\ \A i \in 1 .. n : f[i] = f[i - 1] \o defects(i)
    BY <1>7, <1>10 DEF Joins
  <2>2. \A i \in 0 .. n : f[i] = IF i = 0 THEN <<>> ELSE f[i - 1] \o defects(i)
    <3> SUFFICES ASSUME NEW i \in 0 .. n PROVE f[i] = IF i = 0 THEN <<>> ELSE f[i - 1] \o defects(i)
      OBVIOUS
    <3>1. i = 0 \/ i \in 1 .. n
      BY <1>2
    <3> QED
      BY <2>1, <3>1
  <2>3. f = [i \in 0 .. n |-> IF i = 0 THEN <<>> ELSE f[i - 1] \o defects(i)]
    BY <1>10, <2>2
  <2> QED
    BY <1>9, <2>3
<1>12. Loop(chosen)
  BY <1>11
<1> HIDE DEF chosen
<1>13. Joins(n, chosen, parts)
  <2>1. chosen = [i \in 0 .. n |-> IF i = 0 THEN <<>> ELSE chosen[i - 1] \o defects(i)]
    BY <1>9, <1>12
  <2>2. \A i \in 0 .. n : chosen[i] = IF i = 0 THEN <<>> ELSE chosen[i - 1] \o defects(i)
    BY <2>1
  <2>3. chosen[0] = <<>>
    BY <1>2, <2>2
  <2>4. ASSUME NEW i \in 1 .. n
        PROVE  chosen[i] = chosen[i - 1] \o parts[i]
    <3>1. i \in 0 .. n /\ i # 0
      BY <1>2
    <3> QED
      BY <1>7, <2>2, <3>1
  <2> QED
    BY <2>3, <2>4 DEF Joins
<1>14. chosen[n] \in S /\ (Clean(chosen[n]) <=> \A i \in 1 .. n : Clean(parts[i]))
  BY <1>2, <1>8, <1>13, JoinIsClean DEF S
<1>15. /\ first \in S /\ FirstFailing(first) = IF none THEN "EMPTY_FILE" ELSE "NONE"
       /\ last \in S /\ FirstFailing(last) = IF lacks THEN "MISSING_COLUMN" ELSE "NONE"
  BY <1>4, <1>5, FirstOfOne DEF S, first, last
<1>16. \A s, t \in S : /\ s \o t \in S
                       /\ FirstFailing(s \o t) = IF FirstFailing(s) # "NONE" THEN FirstFailing(s)
                                                 ELSE FirstFailing(t)
  BY <1>5, FirstOfConcat DEF S
<1> DEFINE front == first \o chosen[n]
<1>17. /\ front \in S
       /\ FirstFailing(front) = IF FirstFailing(first) # "NONE" THEN FirstFailing(first)
                                ELSE FirstFailing(chosen[n])
  BY <1>14, <1>15, <1>16
<1>18. HeaderChecks(h) = front \o last
  BY <1>1
<1> HIDE DEF front
<1>19. FirstFailing(HeaderChecks(h)) = IF FirstFailing(front) # "NONE" THEN FirstFailing(front)
                                       ELSE FirstFailing(last)
  BY <1>15, <1>16, <1>17, <1>18
<1>20. FirstFailing(chosen[n]) \in HeaderCodes \cup {"NONE"}
       /\ (FirstFailing(chosen[n]) = "NONE" <=> Clean(chosen[n]))
  <2>1. /\ FirstFailing(chosen[n]) = "NONE" <=> Clean(chosen[n])
        /\ FirstFailing(chosen[n]) # "NONE" =>
             \E i \in 1 .. Len(chosen[n]) : chosen[n][i].code = FirstFailing(chosen[n])
    BY <1>5, <1>14, FirstFailingIsFirst DEF S
  <2>2. \A i \in 1 .. Len(chosen[n]) : chosen[n][i].code \in HeaderCodes
    <3>1. \A i \in 1 .. Len(chosen[n]) : chosen[n][i] \in CheckType(HeaderCodes)
      BY <1>14 DEF S
    <3> QED
      BY <3>1 DEF CheckType
  <2> QED
    BY <2>1, <2>2
<1>21. FirstFailing(HeaderChecks(h)) \in HeaderCodes \cup {"NONE"}
  BY <1>5, <1>15, <1>17, <1>19, <1>20
<1>22. ASSUME FirstFailing(HeaderChecks(h)) = "NONE"
       PROVE  HeaderSound(h)
  <2>1. ~lacks /\ \A i \in 1 .. n : ~twice(i)
    <3>1. Clean(chosen[n]) /\ ~lacks
      BY <1>5, <1>15, <1>17, <1>19, <1>20, <1>22
    <3>2. \A i \in 1 .. n : Clean(defects(i))
      BY <1>7, <1>14, <3>1
    <3> QED
      BY <1>6, <3>1, <3>2
  <2>2. \A i, j \in 1 .. n : j < i => h[j] # h[i]
    BY <1>2, <2>1 DEF twice
  <2>3. ASSUME NEW i \in 1 .. n, NEW j \in 1 .. n, h[i] = h[j]
        PROVE  i = j
    <3>1. ~(i < j) /\ ~(j < i)
      BY <2>2, <2>3
    <3> QED
      BY <1>2, <3>1
  <2> QED
    BY <2>1, <2>3 DEF HeaderSound, lacks, n
<1> QED
  BY <1>21, <1>22
-----------------------------------------------------------------------------
(* The invariant of a load.                                                *)

(* While rows are read they are all good; once one is refused, the rows    *)
(* before it are good, it does not fit, and the code is about it.          *)
Refused ==
  LET earlier == SubSeq(rows, 1, Len(rows) - 1)
  IN WellFormed(earlier) /\ ~WellFormed(rows) /\ Blames(earlier, rows[Len(rows)], status)

Loading ==
  /\ rows \in Seq(Rows) /\ bars \in Seq(Bars)
  /\ \A i \in 1 .. Len(bars) : BarAdmissible(bars[i])
  /\ status = "opening" => rows = <<>> /\ bars = <<>> /\ symbol = ""
  /\ status \in {"reading", "loaded"} => ReadSoFar /\ HeaderSound(header)
  /\ status = "loaded" =>
       /\ bars # <<>>
       /\ report = [rows |-> Len(bars), first |-> bars[1].time, last |-> bars[Len(bars)].time]
  /\ status \in RowCodes => Refused

(* No code of a row is another status. *)
LEMMA OtherStatus ==
  /\ \A c \in HeaderCodes \cup {"opening", "reading", "loaded", "EMPTY_DATASET", "FILE_NOT_FOUND",
                              "NOT_A_FILE", "UNREADABLE_FILE", "INVALID_ENCODING", "MALFORMED_CSV"} :
       c \notin RowCodes
  /\ \A c \in HeaderCodes \cup RowCodes : c \notin {"opening", "reading", "loaded"}
BY DEF HeaderCodes, RowCodes

(* The bar of a sound row passes the checks of Bar. *)
LEMMA SoundBar ==
  ASSUME NEW row \in Rows, SoundRow(row)
  PROVE  BarOf(row) \in Bars /\ BarAdmissible(BarOf(row))
<1>1. row.open \in Int /\ row.high \in Int /\ row.low \in Int /\ row.close \in Int
  BY RowInType
<1>2. BarOf(row) \in Bars
  BY DEF Bars
<1>3. /\ BarOf(row).open = row.open /\ BarOf(row).high = row.high
      /\ BarOf(row).low = row.low /\ BarOf(row).close = row.close
  BY DEF BarOf
<1>4. /\ row.low > 0 /\ row.low <= row.open /\ row.low <= row.close
      /\ row.open <= row.high /\ row.close <= row.high
  BY DEF SoundRow
<1>5. row.open > 0 /\ row.high > 0 /\ row.close > 0
  BY <1>1, <1>4
<1> QED
  BY <1>2, <1>3, <1>4, <1>5 DEF BarAdmissible

(* What rows are by themselves depends on the header alone. *)
LEMMA SameRows ==
  ASSUME header' = header, rows' = rows
  PROVE  WellFormed(rows)' <=> WellFormed(rows)
<1>1. \A r : SoundRow(r)' <=> SoundRow(r)
  BY DEF SoundRow, Has
<1> QED
  BY DEF WellFormed, SoundRow, Compatible, Has

(* Opening the file, with whatever its header is. *)
LEMMA OpenLoads ==
  ASSUME Loading, NEW h \in Headers, Open(h)
  PROVE  Loading'
<1>1. rows = <<>> /\ bars = <<>> /\ symbol = "" /\ UNCHANGED <<bars, symbol, report, rows>>
  BY DEF Open, Loading
<1>2. h \in Seq(STRING)
  BY DatasetAssumption
<1>3. /\ status' = "reading" /\ HeaderSound(header')
      \/ status' \in HeaderCodes
  <2>1. /\ FirstFailing(HeaderChecks(h)) \in HeaderCodes \cup {"NONE"}
        /\ FirstFailing(HeaderChecks(h)) = "NONE" => HeaderSound(h)
    BY <1>2, HeaderVerdict
  <2> QED
    BY <2>1 DEF Open
<1>4. status' \notin RowCodes /\ status' # "opening" /\ status' # "loaded"
  BY <1>3, OtherStatus
<1>5. status' = "reading" => HeaderSound(header')
  BY <1>3, OtherStatus
<1>6. ReadSoFar'
  <2>1. rows' = <<>> /\ bars' = <<>> /\ symbol' = ""
    BY <1>1
  <2>2. Len(rows') = 0 /\ Len(bars') = 0 /\ 1 .. 0 = {}
    <3>1. Len(<<>>) = 0
      BY EmptySeq
    <3>2. 1 .. 0 = {}
      OBVIOUS
    <3> QED
      BY <2>1, <3>1, <3>2
  <2>3. WellFormed(rows)'
    BY <2>2 DEF WellFormed
  <2> QED
    BY <2>1, <2>2, <2>3 DEF ReadSoFar
<1>7. rows' \in Seq(Rows) /\ bars' \in Seq(Bars) /\ \A i \in 1 .. Len(bars') : BarAdmissible(bars'[i])
  BY <1>1 DEF Loading
<1>8. HeaderSound(header') <=> HeaderSound(header)'
  BY DEF HeaderSound
<1> QED
  BY <1>4, <1>5, <1>6, <1>7, <1>8 DEF Loading

(* A failure of the reader reports nothing about the rows. *)
LEMMA FailureLoads ==
  ASSUME Loading, ReadFails
  PROVE  Loading'
<1>1. /\ status' \in {"FILE_NOT_FOUND", "NOT_A_FILE", "UNREADABLE_FILE", "INVALID_ENCODING", "MALFORMED_CSV"}
      /\ rows' = rows /\ bars' = bars
  BY DEF ReadFails
<1>2. status' \notin RowCodes \cup {"opening", "reading", "loaded"}
  BY <1>1, OtherStatus
<1> QED
  BY <1>1, <1>2 DEF Loading

(* The end of the file. *)
LEMMA EndLoads ==
  ASSUME Loading, EndOfFile
  PROVE  Loading'
<1>1. /\ ReadSoFar /\ HeaderSound(header)
      /\ header' = header /\ rows' = rows /\ bars' = bars /\ symbol' = symbol
  BY DEF EndOfFile, Loading
<1>2. ReadSoFar' /\ HeaderSound(header)'
  <2>1. WellFormed(rows)' <=> WellFormed(rows)
    BY <1>1, SameRows
  <2>2. Has("symbol")' <=> Has("symbol")
    BY <1>1 DEF Has
  <2>3. HeaderSound(header)'
    BY <1>1 DEF HeaderSound
  <2> QED
    BY <1>1, <2>1, <2>2, <2>3 DEF ReadSoFar, BarOf
<1>3. CASE status' = "EMPTY_DATASET"
  <2>1. status' \notin RowCodes \cup {"opening", "reading", "loaded"}
    BY <1>3, OtherStatus
  <2> QED
    BY <1>1, <2>1 DEF Loading
<1>4. CASE status' = "loaded" /\ bars # <<>>
           /\ report' = [rows |-> Len(bars), first |-> bars[1].time, last |-> bars[Len(bars)].time]
  <2>1. status' \notin RowCodes \cup {"opening"}
    BY <1>4, OtherStatus
  <2> QED
    BY <1>1, <1>2, <1>4, <2>1 DEF Loading
<1> QED
  BY <1>3, <1>4 DEF EndOfFile

(* A row. *)
LEMMA RowLoads ==
  ASSUME Loading, NEW row \in Rows, ReadRow(row)
  PROVE  Loading'
<1> DEFINE verdict == FirstFailing(Checks(row))
           n == Len(rows)
<1>1. /\ ReadSoFar /\ HeaderSound(header) /\ rows \in Seq(Rows) /\ bars \in Seq(Bars)
      /\ \A i \in 1 .. Len(bars) : BarAdmissible(bars[i])
      /\ status = "reading" /\ header' = header /\ rows' = Append(rows, row)
  BY DEF ReadRow, Loading
<1>2. /\ verdict = "NONE" <=> WellFormed(Append(rows, row))
      /\ verdict = "NONE" => SoundRow(row)
      /\ verdict # "NONE" => verdict \in RowCodes /\ Blames(rows, row, verdict)
  BY <1>1, RowVerdict
<1>3. /\ n \in Nat /\ Len(rows') = n + 1 /\ rows'[n + 1] = row /\ rows' # <<>> /\ rows' \in Seq(Rows)
      /\ \A i \in 1 .. n : rows'[i] = rows[i]
  BY <1>1
<1>4. WellFormed(rows)' <=> WellFormed(Append(rows, row))
  BY <1>1 DEF WellFormed, SoundRow, Compatible, Has
<1>5. HeaderSound(header)'
  BY <1>1 DEF HeaderSound
<1> HIDE DEF verdict
<1>6. CASE verdict = "NONE" /\ bars' = Append(bars, BarOf(row)) /\ status' = status
           /\ symbol' = IF Has("symbol") THEN row.symbol ELSE ""
  <2>1. SoundRow(row) /\ WellFormed(rows)'
    BY <1>2, <1>4, <1>6
  <2>2. BarOf(row) \in Bars /\ BarAdmissible(BarOf(row))
    BY <2>1, SoundBar
  <2>3. /\ Len(bars) = n /\ \A i \in 1 .. n : bars[i] = BarOf(rows[i])
    BY <1>1 DEF ReadSoFar
  <2>4. /\ bars' \in Seq(Bars) /\ Len(bars') = Len(bars) + 1 /\ bars'[Len(bars) + 1] = BarOf(row)
        /\ \A i \in 1 .. Len(bars) : bars'[i] = bars[i]
    <3> DEFINE bar == BarOf(row)
    <3>1. bar \in Bars /\ bars' = Append(bars, bar) /\ bars \in Seq(Bars)
      BY <1>1, <1>6, <2>2
    <3> HIDE DEF bar
    <3>2. /\ bars' \in Seq(Bars) /\ Len(bars') = Len(bars) + 1 /\ bars'[Len(bars) + 1] = bar
          /\ \A i \in 1 .. Len(bars) : bars'[i] = bars[i]
      BY <3>1
    <3> QED
      BY <3>2 DEF bar
  <2> HIDE DEF n
  <2>5. \A i \in 1 .. n + 1 : i \in 1 .. n \/ i = n + 1
    BY <1>3
  <2>6. \A i \in 1 .. n + 1 : bars'[i] = BarOf(rows'[i])
    BY <1>3, <2>3, <2>4, <2>5
  <2>7. \A i \in 1 .. n + 1 : BarAdmissible(bars'[i])
    BY <1>1, <2>2, <2>3, <2>4, <2>5
  <2>8. Has("symbol")' <=> Has("symbol")
    BY <1>1 DEF Has
  <2>9. symbol' = IF rows' # <<>> /\ Has("symbol")' THEN rows'[n + 1].symbol ELSE ""
    BY <1>3, <1>6, <2>8
  <2>10. ReadSoFar'
    BY <1>3, <2>1, <2>3, <2>4, <2>6, <2>9 DEF ReadSoFar, BarOf
  <2>11. Len(bars') = n + 1
    BY <2>3, <2>4
  <2>12. status' = "reading" /\ status' \notin RowCodes
    BY <1>1, <1>6, OtherStatus
  <2> QED
    BY <1>3, <1>5, <2>4, <2>7, <2>10, <2>11, <2>12 DEF Loading
<1>7. CASE verdict # "NONE" /\ status' = verdict /\ bars' = bars
  <2>1. status' \in RowCodes /\ status' \notin {"opening", "reading", "loaded"} /\ ~WellFormed(rows)'
    BY <1>2, <1>4, <1>7, OtherStatus
  <2>2. SubSeq(rows', 1, Len(rows') - 1) = rows
    <3>1. SubSeq(rows', 1, n) = rows
      BY <1>1
    <3> QED
      BY <1>3, <3>1
  <2>3. rows'[Len(rows')] = row
    BY <1>3
  <2>4. Blames(rows, row, verdict)
    BY <1>2, <1>7
  <2> DEFINE earlier == SubSeq(rows, 1, Len(rows) - 1)
  <2>5. earlier' = rows
    BY <2>2
  <2>6. WellFormed(earlier)'
    <3>1. WellFormed(rows)
      BY <1>1 DEF ReadSoFar
    <3>2. header' = header
      BY <1>1
    <3> HIDE DEF earlier
    <3> QED
      BY <2>5, <3>1, <3>2 DEF WellFormed, SoundRow, Compatible, Has
  <2>7. Blames(earlier, rows[Len(rows)], status)'
    <3> HIDE DEF earlier
    <3> QED
      BY <1>1, <1>7, <2>3, <2>4, <2>5 DEF Blames, SoundRow, Has
  <2>8. Refused'
    BY <2>1, <2>6, <2>7 DEF Refused
  <2> QED
    BY <1>1, <1>3, <1>7, <2>1, <2>8 DEF Loading
<1> QED
  BY <1>6, <1>7 DEF ReadRow, verdict

(* The invariant, for any file (load_csv). *)
THEOREM LoadingHolds == DatasetSpec => []Loading
<1>1. DatasetInit => Loading
  <2> SUFFICES ASSUME DatasetInit PROVE Loading
    OBVIOUS
  <2>1. status \notin RowCodes \cup {"reading", "loaded"}
    BY OtherStatus DEF DatasetInit
  <2>2. rows = <<>> /\ bars = <<>> /\ symbol = ""
    BY DEF DatasetInit
  <2>3. rows \in Seq(Rows) /\ bars \in Seq(Bars) /\ Len(bars) = 0
    BY <2>2, EmptySeq
  <2>4. \A i \in 1 .. Len(bars) : BarAdmissible(bars[i])
    BY <2>3
  <2>5. status = "opening"
    BY DEF DatasetInit
  <2> HIDE DEF DatasetInit
  <2> QED
    BY <2>1, <2>2, <2>3, <2>4, <2>5 DEF Loading
<1>2. Loading /\ [DatasetNext]_datasetVars => Loading'
  <2> SUFFICES ASSUME Loading, [DatasetNext]_datasetVars PROVE Loading'
    OBVIOUS
  <2>1. CASE UNCHANGED datasetVars
    <3>1. /\ status' = status /\ header' = header /\ bars' = bars /\ symbol' = symbol
          /\ report' = report /\ rows' = rows
      BY <2>1 DEF datasetVars
    <3>2. ReadSoFar' <=> ReadSoFar
      <4>1. Has("symbol")' <=> Has("symbol")
        BY <3>1 DEF Has
      <4> QED
        BY <3>1, <4>1, SameRows DEF ReadSoFar, BarOf
    <3>3. Refused' <=> Refused
      <4> DEFINE earlier == SubSeq(rows, 1, Len(rows) - 1)
      <4>1. earlier' = earlier
        BY <3>1
      <4> HIDE DEF earlier
      <4>2. WellFormed(earlier)' <=> WellFormed(earlier)
        BY <3>1, <4>1 DEF WellFormed, SoundRow, Compatible, Has
      <4>3. Blames(earlier, rows[Len(rows)], status)' <=> Blames(earlier, rows[Len(rows)], status)
        BY <3>1, <4>1 DEF Blames, SoundRow, Has
      <4> QED
        BY <3>1, <4>2, <4>3, SameRows DEF Refused, earlier
    <3>4. HeaderSound(header)' <=> HeaderSound(header)
      BY <3>1 DEF HeaderSound
    <3> QED
      BY <3>1, <3>2, <3>3, <3>4 DEF Loading
  <2>2. CASE DatasetNext
    BY <2>2, OpenLoads, FailureLoads, EndLoads, RowLoads DEF DatasetNext
  <2> QED
    BY <2>1, <2>2
<1> QED
  BY <1>1, <1>2, PTL DEF DatasetSpec

(* VerdictMatchesRows, for any file: it is accepted exactly when its rows  *)
(* are candles that fit together, and the code of a refused one is about   *)
(* the first row that does not (validation.validate_rows).                 *)
THEOREM VerdictCorrect == DatasetSpec => []VerdictMatchesRows
<1>1. Loading => VerdictMatchesRows
  <2> SUFFICES ASSUME Loading PROVE VerdictMatchesRows
    OBVIOUS
  <2>1. status \in {"reading", "loaded"} => WellFormed(rows) /\ Len(bars) = Len(rows)
    BY DEF Loading, ReadSoFar
  <2>2. status \in RowCodes => Refused
    BY DEF Loading
  <2> QED
    BY <2>1, <2>2 DEF Refused, Blames, VerdictMatchesRows
<1> QED
  BY <1>1, LoadingHolds, PTL

(* LoadedDataIsUsable, for any file: what is loaded passes the checks of   *)
(* LoadedDataset and Bar, from columns that occur once                     *)
(* (domain/market.py, data/normalization.py).                              *)
THEOREM UsableCorrect == DatasetSpec => []LoadedDataIsUsable
<1>1. Loading => LoadedDataIsUsable
  <2> SUFFICES ASSUME Loading PROVE LoadedDataIsUsable
    OBVIOUS
  <2>1. \A i \in 1 .. Len(bars) : BarAdmissible(bars[i])
    BY DEF Loading
  <2>2. ASSUME status = "loaded"
        PROVE  /\ DatasetAdmissible
               /\ \A c \in RequiredColumns \cup {"volume", "symbol"} :
                    \A i, j \in 1 .. Len(header) : header[i] = c /\ header[j] = c => i = j
               /\ \A c \in RequiredColumns : Has(c)
    <3>1. ReadSoFar /\ HeaderSound(header)
      BY <2>2 DEF Loading
    <3>2. /\ bars # <<>>
          /\ report = [rows |-> Len(bars), first |-> bars[1].time, last |-> bars[Len(bars)].time]
      BY <2>2 DEF Loading
    <3> DEFINE n == Len(bars)
    <3>3. n \in Nat /\ n > 0
      <4>1. bars \in Seq(Bars)
        BY DEF Loading
      <4> QED
        BY <3>2, <4>1
    <3>4. \A i \in 1 .. n : bars[i].time = rows[i].time /\ bars[i].aware = rows[i].aware
      <4> SUFFICES ASSUME NEW i \in 1 .. n
                   PROVE  bars[i].time = rows[i].time /\ bars[i].aware = rows[i].aware
        OBVIOUS
      <4>1. bars[i] = BarOf(rows[i])
        BY <3>1 DEF ReadSoFar
      <4> QED
        BY <4>1 DEF BarOf
    <3>5. \A j \in 1 .. n : \A i \in 1 .. j - 1 : Compatible(rows[i], rows[j])
      BY <3>1 DEF ReadSoFar, WellFormed
    <3> HIDE DEF n
    <3>6. \A i \in 1 .. n : bars[i].aware = bars[1].aware
      <4> SUFFICES ASSUME NEW i \in 1 .. n PROVE bars[i].aware = bars[1].aware
        OBVIOUS
      <4>1. 1 \in 1 .. n /\ (i = 1 \/ 1 \in 1 .. i - 1)
        BY <3>3
      <4> QED
        BY <3>4, <3>5, <4>1 DEF Compatible
    <3>7. \A i \in 2 .. n : bars[i - 1].time < bars[i].time
      <4> SUFFICES ASSUME NEW i \in 2 .. n PROVE bars[i - 1].time < bars[i].time
        OBVIOUS
      <4>1. i \in 1 .. n /\ i - 1 \in 1 .. n /\ i - 1 \in 1 .. i - 1
        BY <3>3
      <4> QED
        BY <3>4, <3>5, <4>1 DEF Compatible
    <3> QED
      BY <3>1, <3>2, <3>6, <3>7 DEF DatasetAdmissible, HeaderSound, Has, n
  <2> QED
    BY <2>1, <2>2 DEF LoadedDataIsUsable
<1> QED
  BY <1>1, LoadingHolds, PTL
=============================================================================
