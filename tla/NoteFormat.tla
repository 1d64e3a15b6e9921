------------------------------ MODULE NoteFormat ------------------------------
(***************************************************************************)
(* The two conversions of the note formatter that go wrong for a rare note *)
(* only: the content, which is put into a CDATA section that it could      *)
(* close, and times, which Python's datetime cannot always represent.      *)
(*                                                                         *)
(* Content is a sequence of tokens: "prolog" is an XML declaration; "]",   *)
(* ">" and "cdata", the text that opens a section, are those that matter.  *)
(* A time is a day and a second of it (Python's // and % round down, as do *)
(* \div and % here); a date is what strftime prints of it.                 *)
(***************************************************************************)
EXTENDS Integers, Sequences, SequencesExt

CONSTANT MaxDay  \* first day beyond _get_max_timestamp, which depends on the
                 \* platform: in the year 10000, 3000 or 2038

----------------------------------------------------------------------------
(* Content.                                                                *)

Body(content) ==
    IF content # <<>> /\ Head(content) = "prolog" THEN Tail(content) ELSE content

\* The positions at which a "]]>" ends; no two of them overlap.
Ends(text) ==
    {i \in 3 .. Len(text) : text[i] = ">" /\ text[i - 1] = "]" /\ text[i - 2] = "]"}

\* Fault: the content is put into the section as it is.
fmt_content_verbatim(content) ==
    <<"prolog">> \o Body(content) \o <<"]", "]", ">">>

\* What follows the first "cdata".  A "]]>" is split over two sections.
fmt_content(content) ==
    LET body == Body(content) IN
    <<"prolog">>
    \o FlattenSeq([i \in DOMAIN body |-> IF i \in Ends(body)
                                         THEN <<"]", "]", ">", "cdata", ">">>
                                         ELSE <<body[i]>>])
    \o <<"]", "]", ">">>

\* What a reader of the ENEX file finds in the sections, "spilled" if text is
\* left outside of them.
Read(text) ==
    LET ends   == Ends(text)
        open   == {i + 1 : i \in ends \ {Len(text)}}
        markup == open \cup UNION {{i - 2, i - 1, i} : i \in ends}
        kept   == [i \in DOMAIN text |-> IF i \in markup THEN <<>> ELSE <<text[i]>>]
    IN  IF Len(text) \in ends /\ \A i \in open : text[i] = "cdata"
        THEN FlattenSeq(kept) ELSE <<"spilled">>

----------------------------------------------------------------------------
(* Times.                                                                  *)

Leap(y) == y % 4 = 0 /\ (y % 100 # 0 \/ y % 400 = 0)

\* Days of a year before the first of a month, and days from 1970 to a date.
DaysBeforeMonth(y, m) ==
    <<0, 31, 59, 90, 120, 151, 181, 212, 243, 273, 304, 334>>[m]
    + IF m > 2 /\ Leap(y) THEN 1 ELSE 0

DaysTo(date) ==
    LET y == date.y - 1 IN
    365 * (date.y - 1970) + (y \div 4 - y \div 100 + y \div 400 - 477)
    + DaysBeforeMonth(date.y, date.m) + date.d - 1

DaysOfMonth(y, m) ==
    IF m = 12 THEN 31 ELSE DaysBeforeMonth(y, m + 1) - DaysBeforeMonth(y, m)

IsDate(date) == date.m \in 1 .. 12 /\ date.d \in 1 .. DaysOfMonth(date.y, date.m)

datetime_min == [y |-> 1, m |-> 1, d |-> 1, sec |-> 0]
datetime_max == [y |-> 9999, m |-> 12, d |-> 31, sec |-> 86399]

\* Python's datetime, for a day that it can represent.
fmt_utcfromtimestamp(t) ==
    LET years == {t.day \div 366, t.day \div 365} IN
    CHOOSE date \in [y : (Min(years) + 1969) .. (Max(years) + 1971),
                     m : 1 .. 12, d : 1 .. 31, sec : {t.sec}] :
        IsDate(date) /\ DaysTo(date) = t.day

_date_from_past(t) ==
    IF t.day < DaysTo(datetime_min) THEN datetime_min ELSE fmt_utcfromtimestamp(t)

\* Fault: the year begins in March.
_date_from_future_march(t) ==
    LET z   == t.day + 719468
        era == z \div 146097
        doe == z - era * 146097
        yoe == (doe - doe \div 1460 + doe \div 36524 - doe \div 146096) \div 365
        doy == doe - (365 * yoe + yoe \div 4 - yoe \div 100)
        mp  == (5 * doy + 2) \div 153
        y   == yoe + era * 400
    IN  [y |-> y, m |-> IF mp < 10 THEN mp + 3 ELSE mp - 9,
         d |-> doy - (153 * mp + 2) \div 5 + 1, sec |-> t.sec]

\* z is positive for a time in the future.
_date_from_future(t) ==
    LET z   == t.day + 719468
        era == z \div 146097
        doe == z - era * 146097
        yoe == (doe - doe \div 1460 + doe \div 36524 - doe \div 146096) \div 365
        doy == doe - (365 * yoe + yoe \div 4 - yoe \div 100)
        mp  == (5 * doy + 2) \div 153
        m   == IF mp < 10 THEN mp + 3 ELSE mp - 9
        y   == yoe + era * 400 + IF m <= 2 THEN 1 ELSE 0
    IN  IF y > 9999 THEN datetime_max
        ELSE [y |-> y, m |-> m, d |-> doy - (153 * mp + 2) \div 5 + 1, sec |-> t.sec]

fmt_time(t) ==
    IF t.day < 0            THEN _date_from_past(t)
    ELSE IF t.day >= MaxDay THEN _date_from_future(t)
    ELSE fmt_utcfromtimestamp(t)

\* The date is that of the time, or the end of the calendar on its side.
RightDate(t, date) ==
    \/ IsDate(date) /\ DaysTo(date) = t.day /\ date.sec = t.sec
    \/ date = datetime_min /\ t.day < DaysTo(datetime_min)
    \/ date = datetime_max /\ t.day > DaysTo(datetime_max)
============================================================================
