--------------------------------- MODULE Rtc --------------------------------
(***************************************************************************)
(* Reading the CMOS clock, kernel/rtc.c.  The clock goes on while its      *)
(* registers are read one by one, and what is read during an update is     *)
(* arbitrary.  The registers are the digits of a counter, the least        *)
(* significant one read first; the conversion of what was read to a        *)
(* calendar date is separate.                                              *)
(***************************************************************************)
EXTENDS Integers

CONSTANTS
  Digits, Radix,     \* registers, and values of each
  ReadAttempts       \* 5 in the code

Wrap == Radix ^ Digits
DigitOf(t, i) == (t \div Radix ^ (i - 1)) % Radix

VARIABLES
  clock,             \* the time
  updating,          \* the UIP bit
  updates,           \* whether the clock was updated since this attempt began
  shown,             \* the times it had since then
  rtc_pc,            \* "idle", "wait", "read" or "done"
  pass, reg,         \* reading 1 or 2, and its next register
  reading,           \* what the readings returned
  attempts

rtcVars == <<clock, updating, updates, shown, rtc_pc, pass, reg, reading, attempts>>

NoReading == [p \in 1..2 |-> [i \in 1..Digits |-> 0]]

RtcInit ==
  /\ updating = FALSE /\ updates = FALSE /\ shown = {clock}
  /\ rtc_pc = "idle" /\ pass = 1 /\ reg = 1 /\ reading = NoReading /\ attempts = 0

-----------------------------------------------------------------------------
\* An update begins and ends.  The clock is updated once a second, and an attempt
\* takes less than that.
update_begins ==
  /\ ~updating /\ rtc_pc \in {"wait", "read"} /\ ~updates
  /\ updating' = TRUE /\ updates' = TRUE
  /\ UNCHANGED <<clock, shown, rtc_pc, pass, reg, reading, attempts>>

update_ends ==
  /\ updating /\ updating' = FALSE
  /\ clock' = (clock + 1) % Wrap /\ shown' = shown \cup {clock'}
  /\ UNCHANGED <<updates, rtc_pc, pass, reg, reading, attempts>>

-----------------------------------------------------------------------------
(***************************************************************************)
(* rtc_read_time.                                                          *)
(***************************************************************************)
Attempt(n) ==
  /\ rtc_pc' = "wait" /\ pass' = 1 /\ reg' = 1 /\ reading' = NoReading /\ attempts' = n
  /\ updates' = updating /\ shown' = {clock}

rtc_read_time == rtc_pc = "idle" /\ Attempt(ReadAttempts) /\ UNCHANGED <<clock, updating>>

\* An update is over long before the time-out of cmos_wait_uip.
cmos_wait_uip ==
  /\ rtc_pc = "wait" /\ ~updating /\ rtc_pc' = "read"
  /\ UNCHANGED <<clock, updating, updates, shown, pass, reg, reading, attempts>>

cmos_read ==
  /\ rtc_pc = "read" /\ reg <= Digits
  /\ \E v \in IF updating THEN 0..(Radix - 1) ELSE {DigitOf(clock, reg)} :
       reading' = [reading EXCEPT ![pass][reg] = v]
  /\ IF pass = 1 /\ reg = Digits THEN pass' = 2 /\ reg' = 1 /\ rtc_pc' = "wait"
     ELSE reg' = reg + 1 /\ UNCHANGED <<pass, rtc_pc>>
  /\ UNCHANGED <<clock, updating, updates, shown, attempts>>

MutOneReading == FALSE
Differ == reading[1] # reading[2]

\* Both readings are in: once more if they differ, unless this was the last attempt.
compare ==
  /\ rtc_pc = "read" /\ reg > Digits
  /\ IF attempts > 1 /\ Differ
     THEN Attempt(attempts - 1)
     ELSE rtc_pc' = "done" /\ UNCHANGED <<updates, shown, pass, reg, reading, attempts>>
  /\ UNCHANGED <<clock, updating>>

return == rtc_pc = "done" /\ rtc_pc' = "idle" /\ UNCHANGED <<clock, updating, updates, shown, pass, reg, reading, attempts>>

RtcNext == update_begins \/ update_ends \/ rtc_read_time \/ cmos_wait_uip \/ cmos_read \/ compare \/ return

-----------------------------------------------------------------------------
(***************************************************************************)
(* The second half of rtc_read_time: the registers of one reading become a *)
(* date.  mode is status register B; cal is the date the clock shows.      *)
(***************************************************************************)
CONSTANT Calendar    \* dates, as records of second, hour, year and whether there is a century register

VARIABLES mode, cal

dateVars == <<mode, cal>>

Modes == [bcd : BOOLEAN, is_24hr : BOOLEAN]

\* How the clock stores a number, and an hour.
Store(n) == IF mode.bcd THEN (n \div 10) * 16 + (n % 10) ELSE n
StoreHour(h) ==
  IF mode.is_24hr THEN Store(h)
  ELSE Store(IF h % 12 = 0 THEN 12 ELSE h % 12) + (IF h >= 12 THEN 128 ELSE 0)
Century == IF cal.century THEN Store(cal.year \div 100) ELSE 0

bcd_to_bin(b) == (b % 16) + (b \div 16) * 10
Number(b) == IF mode.bcd THEN bcd_to_bin(b) ELSE b

MutNoonIsMidnight(b) ==
  LET h == Number(b % 128)
  IN IF mode.is_24hr THEN h ELSE IF b >= 128 THEN h + 12 ELSE h
HourOf(b) ==
  LET h == Number(b % 128)
  IN IF mode.is_24hr THEN h
     ELSE IF b >= 128 THEN (h % 12) + 12
     ELSE IF h = 12 THEN 0 ELSE h

YearOf(y, c) ==
  LET c2 == IF mode.bcd /\ c = 255 THEN 0 ELSE Number(c)
      y2 == Number(y)
  IN IF c2 \in 19..21 THEN c2 * 100 + y2 ELSE IF y2 >= 70 THEN 1900 + y2 ELSE 2000 + y2

InRange(n, lo, hi) == IF n \in lo..hi THEN n ELSE lo

DateRead ==
  [second |-> InRange(Number(Store(cal.second)), 0, 59), hour |-> InRange(HourOf(StoreHour(cal.hour)), 0, 23),
   year |-> YearOf(Store(cal.year % 100), Century), century |-> cal.century]

-----------------------------------------------------------------------------
\* The time returned is one the clock really had while it was read, not seconds of
\* one minute with the minutes of the next, unless every attempt met an update; and
\* whatever format the clock keeps it in, it is converted to the date it stands for.
TimeNotTorn ==
  /\ rtc_pc = "done" => \/ \E t \in shown : \A i \in 1..Digits : reading[2][i] = DigitOf(t, i)
                        \/ attempts = 1 /\ Differ
  /\ DateRead = cal
=============================================================================
