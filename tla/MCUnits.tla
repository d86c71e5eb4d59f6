------------------------------- MODULE MCUnits ------------------------------
(***************************************************************************)
(* The components that share no state with each other, for TLC: a variable *)
(* says which of them moves in this behaviour, the others stay as they     *)
(* began.                                                                  *)
(***************************************************************************)
EXTENDS FatEntry, FatLayout, Dhcp, Paging, Shell, Nic, Klog, Editor, Disk, Mouse, Irq, Timer, Rtc, Rtl8139, Screen,
        Library, Calc, Commands, Desktop, TLC, Pci, NicIrq, Frames

CONSTANT Units      \* the components to be checked

VARIABLE unit

-----------------------------------------------------------------------------
(***************************************************************************)
(* Values of constants.                                                    *)
(***************************************************************************)
\* Disks around every size at which fat_format changes its mind, the smallest ones,
\* and one in 61 up to 24000 sectors.
Around(n) == (n - 8)..(n + 8)
Thresholds ==
  {64, 512, 2048, 4118, 4151, 8192, 16384, 16424, 65536, 262144, 524288, 1048576, 2097152}
MCDiskSizes ==
  {0} \cup (40..140) \cup UNION {Around(n) : n \in Thresholds}
      \cup {n \in 64..24000 : n % 61 = 0}

\* Memory maps that begin and end inside frames, with holes, overlapping, and more
\* memory than the bitmap has bits.
Region(a, n) == [addr |-> a, len |-> n]
MCMemoryMaps ==
  {{Region(0, 12)}, {Region(0, 3), Region(5, 5)}, {Region(0, 9), Region(11, 1)},
   {Region(1, 5), Region(7, 3), Region(9, 3)}}

\* Devices within a page, across pages and tables, and next to each other.
Device(a, n) == [addr |-> a, size |-> n]
MCDevices == {Device(13, 2), Device(16, 3), Device(12, 8), Device(18, 2), Device(10, 1)}

MCPrompt == <<"$">>
MCOutputs == {<<"o">>, <<"o", "NL", "o", "NL">>}
MCCompletion == {<<"a">>}

\* A file that is longer than the editor's buffer.
MCFileContents == {<<"a", "NL", "a", "a", "NL", "a">>}

MCDeltas == {[x |-> -2, y |-> 1], [x |-> 1, y |-> -2]}

\* Every hour and second, and the years around which a century is guessed.
MCCalendar ==
  {[second |-> n, hour |-> n % 24, year |-> 2000 + n, century |-> FALSE] : n \in 0..59}
    \cup {[second |-> 0, hour |-> 0, year |-> y, century |-> FALSE] : y \in {1970, 1999, 2069}}
    \cup {[second |-> 0, hour |-> 0, year |-> y, century |-> TRUE] : y \in {1900, 1969, 2069, 2070, 2199}}

\* A character of one pixel, and a pointer that shows some of what is under it.
MCGlyph == [ch \in {" ", "a"} |-> IF ch = "a" THEN {<<0, 1>>} ELSE {}]
MCPointer == {<<0, 0>>, <<1, 1>>}
\* In the bar and over two cells, and at the edge.
MCPlaces == {<<0, 0>>, <<1, 3>>}

\* No digits, the largest number and one more.
MCParts == {<<>>, <<2, 5, 5>>, <<2, 5, 6>>}

\* Precedence and the exception, parentheses and division by zero, bases and blanks.
MCAlphabets == {<<{"1", "8", "-", "*", "/"}, 5>>, <<{"1", "0", "(", ")", "/"}, 5>>, <<{"0", "x", "8", " ", "+"}, 4>>,
  <<{"8", "1", "%", "+", "-"}, 4>>}

\* The lines that are typed, and "sh s" and "sh t" that they write to files.
MCLine ==
  [n \in {"sh s", "sh t", "append s sh s", "append s sh t", "write t append s sh t", "write t !1", "touch s", "cp s t", "mv s t",
          "rm s", "!1", "user"} |->
    CASE n = "sh s" -> [verb |-> "sh", a |-> "s"]
      [] n = "sh t" -> [verb |-> "sh", a |-> "t"]
      [] n = "append s sh s" -> [verb |-> "append", a |-> "s", b |-> "sh s"]
      [] n = "append s sh t" -> [verb |-> "append", a |-> "s", b |-> "sh t"]
      [] n = "write t append s sh t" -> [verb |-> "write", a |-> "t", b |-> "append s sh t"]
      [] n = "write t !1" -> [verb |-> "write", a |-> "t", b |-> "!1"]
      [] n = "touch s" -> [verb |-> "touch", a |-> "s"]
      [] n = "cp s t" -> [verb |-> "cp", a |-> "s", b |-> "t"]
      [] n = "mv s t" -> [verb |-> "mv", a |-> "s", b |-> "t"]
      [] n = "rm s" -> [verb |-> "rm", a |-> "s"]
      [] n = "!1" -> [verb |-> "!", a |-> 1]
      [] n = "user" -> [verb |-> "user", a |-> <<"a", "b", "c", "d">>]]
MCTyped == DOMAIN MCLine

\* An empty slot, cards of one function and of two (numbers 0 and 2), and network
\* controllers that can and cannot be used.
Card(kind, bar, irq, alias) == [multi |-> FALSE, alias |-> alias, kind |-> (0 :> kind @@ 1 :> EMPTY @@ 2 :> EMPTY), bar |-> bar, irq |-> irq]
MCCards ==
  {Card(EMPTY, "none", 0, FALSE), Card("other", "none", 0, TRUE), Card("82540EM", "memory", 11, FALSE), Card("82540EM", "io", 11, FALSE),
   Card("82574L", "memory", 5, TRUE), Card("rtl8139", "io", 11, FALSE),
   [multi |-> TRUE, alias |-> FALSE, kind |-> (0 :> "other" @@ 1 :> EMPTY @@ 2 :> "rtl8139"), bar |-> "io", irq |-> 10]}
MCE1000 == <<"82540EM", "82574L">>

\* An E1000 ring has room for fewer frames than the budget, the RTL8139's for more.
MCFrameRoom == [k \in NicKinds |-> IF k = "E1000" THEN 3 ELSE 5]

-----------------------------------------------------------------------------
\* A component that does not move begins in one of its initial states only.
Pinned(name, values) == IF unit = name THEN values ELSE {CHOOSE v \in values : TRUE}

vars == <<unit, entryVars, layoutVars, dhcpVars, pagingVars, shellVars, nicVars, klogVars, edVars, diskVars,
          mouseVars, irqVars, timerVars, rtcVars, dateVars, rtlVars, screenVars, libVars, calcVars, cmdVars,
          desktopVars, pciVars, nicIrqVars, frameVars>>

\* Always true; it makes TLC evaluate the initial values once.
Evaluated == vars \in {vars, <<>>}

Init ==
  /\ unit \in Units
  /\ fat_type \in Pinned("entry", {12, 16}) /\ EntryInit
  /\ hdd \in Pinned("layout", DiskSizes) /\ LayoutInit
  /\ DhcpInit
  /\ map \in Pinned("paging", MemoryMaps) /\ PagingInit
  /\ ShellInit
  /\ e1000_init_device
  /\ klog_init
  /\ file \in Pinned("editor", FileContents \cup {NoFile}) /\ EdInit
  /\ drives \in Pinned("disk", [Positions -> Kinds]) /\ disk_init
  /\ dual \in Pinned("mouse", BOOLEAN) /\ mouse \in Pinned("mouse", {"none", "plain", "wheel"}) /\ MouseInit
  /\ nic_irq \in Pinned("irq", NicLines) /\ pic_remap
  /\ ticks \in Pinned("timer", 0..(TICK_WRAP - 1)) /\ TimerInit
  /\ clock \in Pinned("rtc", 0..(Wrap - 1)) /\ RtcInit
  /\ mode \in Pinned("date", Modes) /\ cal \in Pinned("date", Calendar)
  /\ rtl8139_init_device
  /\ ScreenInit
  /\ LibraryInit
  /\ alphabet \in Pinned("calc", Alphabets) /\ CalcInit
  /\ CommandsInit
  /\ spot \in Pinned("desktop", Spots) /\ arrow_at \in Pinned("desktop", {spot, NOWHERE}) /\ DesktopInit
  /\ slots \in Pinned("pci", [0..(PciSlots - 1) -> Cards]) /\ PciInit
  /\ nic_kind \in Pinned("nicirq", NicKinds) /\ NicIrqInit
  /\ FramesInit
  /\ Evaluated

\* The components other than u stay as they are.
Keep(u, name, v) == IF u = name THEN TRUE ELSE UNCHANGED v
Moves(u) ==
  /\ unit = u /\ UNCHANGED unit
  /\ Keep(u, "entry", entryVars) /\ Keep(u, "layout", layoutVars) /\ Keep(u, "dhcp", dhcpVars)
  /\ Keep(u, "paging", pagingVars) /\ Keep(u, "shell", shellVars) /\ Keep(u, "nic", nicVars)
  /\ Keep(u, "klog", klogVars) /\ Keep(u, "editor", edVars) /\ Keep(u, "disk", diskVars)
  /\ Keep(u, "mouse", mouseVars)
  /\ Keep(u, "irq", irqVars)
  /\ Keep(u, "timer", timerVars)
  /\ Keep(u, "rtc", rtcVars) /\ UNCHANGED dateVars
  /\ (IF u = "rtltx" THEN TRUE ELSE Keep(u, "rtl", rtlVars))
  /\ Keep(u, "screen", screenVars)
  /\ Keep(u, "library", libVars)
  /\ Keep(u, "calc", calcVars)
  /\ Keep(u, "commands", cmdVars)
  /\ Keep(u, "desktop", desktopVars)
  /\ Keep(u, "pci", pciVars)
  /\ Keep(u, "nicirq", nicIrqVars)
  /\ Keep(u, "frames", frameVars)

Next ==
  \/ Moves("entry") /\ EntryNext
  \/ Moves("layout") /\ LayoutNext
  \/ Moves("dhcp") /\ DhcpNext
  \/ Moves("paging") /\ PagingNext
  \/ Moves("shell") /\ ShellNext
  \/ Moves("nic") /\ NicNext
  \/ Moves("klog") /\ KlogNext
  \/ Moves("editor") /\ EdNext
  \/ Moves("disk") /\ DiskNext
  \/ Moves("mouse") /\ MouseNext
  \/ Moves("irq") /\ IrqNext
  \/ Moves("timer") /\ TimerNext
  \/ Moves("rtc") /\ RtcNext
  \/ Moves("rtl") /\ RtlRxNext
  \/ Moves("rtltx") /\ RtlTxNext
  \/ Moves("screen") /\ ScreenNext
  \/ Moves("library") /\ LibraryNext
  \/ Moves("calc") /\ CalcNext
  \/ Moves("commands") /\ CommandsNext
  \/ Moves("desktop") /\ DesktopNext
  \/ Moves("pci") /\ PciNext
  \/ Moves("nicirq") /\ NicIrqNext
  \/ Moves("frames") /\ FramesNext

Spec == Init /\ [][Next]_vars

\* Of a component that does not move nothing matters, of the console the rows above
\* the prompt do not: they are never read again.
Moving ==
  CASE unit = "entry" -> entryVars [] unit = "layout" -> layoutVars [] unit = "dhcp" -> dhcpVars
    [] unit = "paging" -> pagingVars [] unit = "nic" -> nicVars [] unit = "klog" -> klogVars
    [] unit = "editor" -> edVars [] unit = "disk" -> diskVars [] unit = "mouse" -> mouseVars
    [] unit = "irq" -> irqVars
    [] unit = "timer" -> timerVars
    [] unit = "rtc" -> rtcVars
    [] unit = "date" -> dateVars
    [] unit = "rtl" ->
         <<{<<i, rtl_rx_buf[i]>> : i \in {j \in RtlBuffer : Unread(j)}}, CBR, CAPR, rtl_rx_offset, rtl_next, rtl_want,
           rtl_pc, bad>>
    [] unit = "rtltx" -> rtlTx
    [] unit = "screen" -> screenView
    [] unit = "library" -> libVars
    [] unit = "calc" -> calcVars
    [] unit = "commands" -> cmdVars
    [] unit = "desktop" -> desktopVars
    [] unit = "pci" -> pciVars
    [] unit = "nicirq" -> nicIrqVars
    [] unit = "frames" -> frameVars
    [] unit = "shell" ->
         <<[r \in prompt_row..(con_rows - 1) |-> grid[r]], cur_x, cur_y, prompt_col, prompt_row, cmd_buf, cmd_cursor,
           history, history_nav>>
View == <<unit, Moving>>

-----------------------------------------------------------------------------
\* Both network controllers hand frames on in order, each once: nic_poll and
\* nic_send_packet do not depend on which of them nic_init found.
FramesInOrder == RingsAreChannels /\ RtlRingIsChannel

\* Nobody waits for an interrupt that will not come: irq_handler leaves no line
\* blocked, the network drivers leave no frame in the ring unannounced, and a handler
\* finds and leaves the frame on the stack as it has to and never halts.
InterruptsKept == NoLineSilenced /\ NoFrameStranded /\ FramesExact

\* The two clocks are right: sleep_ms sleeps its time across the wrap of the tick
\* count, and rtc_read_time returns a time that the clock had.
TimeKept == SleepsItsTime /\ TimeNotTorn

=============================================================================
