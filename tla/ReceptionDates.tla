--------------------------- MODULE ReceptionDates ---------------------------
(***************************************************************************)
(* The rules for a guía's reception date: domain/date_inference.py,        *)
(* date_floor.py, date_ceiling.py and date_divergence.py.                  *)
(*                                                                         *)
(* A date is the number YYYYMMDD, so that < on numbers is < on dates; a    *)
(* day and month without a year is the number MMDD.                        *)
(***************************************************************************)
EXTENDS Integers, FiniteSetsExt

CONSTANT None     \* no date

\* What a stamp's day and month can be, whether or not some year has that date.
MonthDays == 0 .. 9999
YearOf(date) == date \div 10000
MonthDay(date) == date % 10000
DateOf(year, monthDay) == 10000 * year + monthDay

IsLeap(year) == year % 4 = 0 /\ (year % 100 # 0 \/ year % 400 = 0)

DaysIn(month, year) ==
  IF month = 2 THEN IF IsLeap(year) THEN 29 ELSE 28
  ELSE IF month \in {4, 6, 9, 11} THEN 30 ELSE 31

\* What datetime.date(year, month, day) accepts.
IsDate(date) ==
  LET month == MonthDay(date) \div 100
      day == date % 100
  IN /\ YearOf(date) \in 1 .. 9999
     /\ month \in 1 .. 12
     /\ day \in 1 .. DaysIn(month, YearOf(date))

NotBefore(date, lower) == lower # None => lower <= date
NotAfter(date, upper) == upper # None => date <= upper

\* The years tried are five before the upper bound's up to the one after it.
YearsBefore == 5

\* Fault: the bound checks only the year.
CandidatesOfPastYears(monthDay, lower, upper) ==
  {date \in {DateOf(year, monthDay) :
               year \in YearOf(upper) - YearsBefore .. YearOf(upper)} :
     IsDate(date) /\ NotBefore(date, lower)}

Candidates(monthDay, lower, upper) ==
  {date \in {DateOf(year, monthDay) :
               year \in YearOf(upper) - YearsBefore .. YearOf(upper) + 1} :
     IsDate(date) /\ date <= upper /\ NotBefore(date, lower)}

(* The latest candidate.  None when there is none, and when lower > upper:
   no candidate lies between them. *)
infer_reception_year(monthDay, lower, upper) ==
  LET candidates == Candidates(monthDay, lower, upper)
  IN IF candidates = {} THEN None
     ELSE CHOOSE latest \in candidates : \A date \in candidates : date <= latest

\* Nothing is received before it is delivered.
IsFloored(reception, fecha_entrega) ==
  fecha_entrega # None /\ (reception = None \/ reception < fecha_entrega)
apply_delivery_floor(reception, fecha_entrega) ==
  IF IsFloored(reception, fecha_entrega) THEN fecha_entrega ELSE reception

\* Nothing is received after the Protocolo that declares it.
IsCeiled(reception, ceiling) ==
  reception # None /\ ~NotAfter(reception, ceiling)
apply_reception_ceiling(reception, ceiling) ==
  IF IsCeiled(reception, ceiling) THEN ceiling ELSE reception

\* The declared and the handwritten date must agree on day and month.
check_fecha_divergence(declared, reception) ==
  declared # None /\ reception # None /\ MonthDay(declared) # MonthDay(reception)
=============================================================================
