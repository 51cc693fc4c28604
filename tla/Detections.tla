----------------------------- MODULE Detections ------------------------------
(***************************************************************************)
(* The table detections: the control program saves a picture under the     *)
(* Korean time of the alert, as text, and request 1 of the TCP server      *)
(* selects a range of that text.  A row is [image, timestamp], a text is   *)
(* the sequence of its character codes and a time <<year, month, day,      *)
(* hour, minute, second>>; rows are in the order of their ids.             *)
(***************************************************************************)
EXTENDS Integers, Sequences, SequencesExt, FiniteSetsExt, Base64

NoTime == <<>>

-----------------------------------------------------------------------------
(* The C library's calendar.                                                *)

IsLeap(y) == y % 4 = 0 /\ (y % 100 # 0 \/ y % 400 = 0)

DaysIn(y, m) == CASE m = 2 -> IF IsLeap(y) THEN 29 ELSE 28
                  [] m \in {4, 6, 9, 11} -> 30
                  [] OTHER -> 31

\* Days from 1970 to the first of January of y, and to the first of m in a year.
YearStart(y) == 365 * (y - 1970) + Cardinality({k \in 1970..(y - 1) : IsLeap(k)})
MonthStart(y, m) == MapThenSumSet(LAMBDA k : DaysIn(y, k), 1..(m - 1))

timegm(t) ==
  86400 * (YearStart(t[1]) + MonthStart(t[1], t[2]) + t[3] - 1)
    + 3600 * t[4] + 60 * t[5] + t[6]

gmtime(n) ==
  LET day == n \div 86400
      sec == n % 86400
      y == Max({k \in 1970..2038 : YearStart(k) <= day})
      m == Max({k \in 1..12 : YearStart(y) + MonthStart(y, k) <= day})
  IN  <<y, m, day - YearStart(y) - MonthStart(y, m) + 1,
        sec \div 3600, (sec \div 60) % 60, sec % 60>>

Digits(n, k) == [i \in 1..k |-> 48 + ((n \div 10^(k - i)) % 10)]

\* "%Y-%m-%dT%H:%M:%SKST".
strftime(t) ==
  Digits(t[1], 4) \o <<45>> \o Digits(t[2], 2) \o <<45>> \o Digits(t[3], 2) \o <<84>>
    \o Digits(t[4], 2) \o <<58>> \o Digits(t[5], 2) \o <<58>> \o Digits(t[6], 2)
    \o <<75, 83, 84>>
-----------------------------------------------------------------------------
(* The control program.                                                     *)

\* Mutant: the nine hours are added to the hour alone.
HourOnly(utc) == strftime([utc EXCEPT ![4] = (@ + 9) % 24])

kst_timestamp_str(utc) == strftime(gmtime(timegm(utc) + 9 * 3600))

\* An exception of the statement is caught: the picture is lost.
insert_data(rows, image, timestamp, throws) ==
  IF throws THEN rows ELSE Append(rows, [image |-> image, timestamp |-> timestamp])

\* Without a time, or without a picture from ffmpeg, nothing is inserted.
capture_screen_and_save(rows, utc, image, throws) ==
  IF utc = NoTime \/ image = <<>> THEN rows
  ELSE insert_data(rows, image, kst_timestamp_str(utc), throws)
-----------------------------------------------------------------------------
(* The server.                                                              *)

\* SQLite compares texts byte by byte.
TextLess(a, b) ==
  \/ IsStrictPrefix(a, b)
  \/ \E i \in 1..Len(a) :
       i <= Len(b) /\ a[i] < b[i] /\ SubSeq(a, 1, i - 1) = SubSeq(b, 1, i - 1)

Between(text, low, high) == ~TextLess(text, low) /\ ~TextLess(high, text)

\* WHERE timestamp BETWEEN ? AND ? ORDER BY timestamp.  An exception is caught, and
\* what was read before it is returned like a whole answer: at most readable rows.
select_data_for_timestamp_range_detections(rows, start_ts, end_ts, readable) ==
  LET found == SortSeq(SelectSeq(rows, LAMBDA row : Between(row.timestamp, start_ts, end_ts)),
                       LAMBDA r, s : TextLess(r.timestamp, s.timestamp))
  IN  SubSeq(found, 1, Min({readable, Len(found)}))

\* Request 1: the data of answer 10.
handle_detection_request(rows, start_ts, end_ts, readable) ==
  LET detections ==
        select_data_for_timestamp_range_detections(rows, start_ts, end_ts, readable)
  IN  [i \in 1..Len(detections) |->
         [image |-> base64_encode(detections[i].image), timestamp |-> detections[i].timestamp]]

=============================================================================
