-------------------------------- MODULE Datetime --------------------------------
(***************************************************************************)
(* Datetimes as the events calculate with them.  A TIMESTAMP in a numeric  *)
(* expression is the number YYYYMMDDhhmmss, so the difference of two is    *)
(* the seconds between them only within one minute: from one minute to the *)
(* next it is 40 more, from one hour to the next 4040 more.                *)
(* Times are the seconds since midnight.                                   *)
(***************************************************************************)
EXTENDS Integers

Minute(t) == t \div 60
Hour(t)   == t \div 3600

Decimal(t) == (t % 60) + 100 * (Minute(t) % 60) + 10000 * Hour(t)

\* What SQL makes of `a - b'.
Minus(a, b) == Decimal(a) - Decimal(b)

================================================================================
