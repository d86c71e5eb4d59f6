-------------------------------- MODULE Klog --------------------------------
(***************************************************************************)
(* The kernel's message log of kernel/klog.c.  Only the boot code and the  *)
(* shell write to it, a line at a time.  Time stamp, subsystem and message *)
(* are one string; what matters of a character is whether it ends a line.  *)
(***************************************************************************)
EXTENDS Integers, Sequences

CONSTANTS
  KLOG_BUFFER_SIZE,
  klog_drop,           \* characters dropped when no line ends in the first half (256)
  MaxLine              \* bound: length of a line without its end

ASSUME KlogAssumption ==
  /\ klog_drop \in 1..(KLOG_BUFFER_SIZE - 1) /\ MaxLine \in Nat

VARIABLES
  klog_buf,            \* its length is klog_len
  printed              \* the last characters printed, those dropped included

klogVars == <<klog_buf, printed>>

Last(s, n) == IF Len(s) > n THEN SubSeq(s, Len(s) - n + 1, Len(s)) ELSE s

\* How many characters make way: the first line, if it ends in the first half.
MutKeepsNewline(buf) ==
  LET ends == {i \in 1..(KLOG_BUFFER_SIZE \div 2) : buf[i] = "NL"}
  IN IF ends = {} THEN klog_drop ELSE (CHOOSE i \in ends : \A j \in ends : i <= j) - 1
Drop(buf) ==
  LET ends == {i \in 1..(KLOG_BUFFER_SIZE \div 2) : buf[i] = "NL"}
  IN IF ends = {} THEN klog_drop ELSE CHOOSE i \in ends : \A j \in ends : i <= j

klog_append_char(buf, c) ==
  IF Len(buf) < KLOG_BUFFER_SIZE - 1 THEN Append(buf, c)
  ELSE Append(SubSeq(buf, Drop(buf) + 1, Len(buf)), c)

klog_write(buf, msg) ==
  LET f[i \in 0..Len(msg)] == IF i = 0 THEN buf ELSE klog_append_char(f[i - 1], msg[i])
  IN f[Len(msg)]

klog_init == klog_buf = <<>> /\ printed = <<"NL">>

klog_writeln(line) ==
  /\ klog_buf' = klog_write(klog_buf, Append(line, "NL"))
  /\ printed' = Last(printed \o Append(line, "NL"), 2 * KLOG_BUFFER_SIZE)

klog_clear == klog_buf' = <<>> /\ printed' = <<"NL">>

KlogNext ==
  \/ \E n \in 0..MaxLine : klog_writeln([i \in 1..n |-> "x"])
  \/ klog_clear

KlogSpec == klog_init /\ [][KlogNext]_klogVars

-----------------------------------------------------------------------------
\* The log is the end of what was printed, without gaps, however often it wrapped,
\* and fits its buffer with the terminating zero.
LogIsSuffix == Len(klog_buf) < KLOG_BUFFER_SIZE /\ klog_buf = Last(printed, Len(klog_buf))

\* Unless a line of half the buffer's length or more was printed of late, dmesg
\* begins at the beginning of a line.
StartsAtLine ==
  LET half == KLOG_BUFFER_SIZE \div 2
      long == \E i \in 1..(Len(printed) - half + 1) : \A j \in i..(i + half - 1) : printed[j] # "NL"
  IN long \/ printed[Len(printed) - Len(klog_buf)] = "NL"

\* dmesg shows the latest output without gaps, beginning with a whole line.
LogIsLatest == LogIsSuffix /\ StartsAtLine
=============================================================================
