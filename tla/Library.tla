------------------------------- MODULE Library -------------------------------
(***************************************************************************)
(* The pure functions of the kernel, each against what it is for:          *)
(* kernel/common.c (memory, strings, numbers), the checksum and the        *)
(* addresses of kernel/net.c, the file names of kernel/fat.c, the uptime   *)
(* of kernel/timer.c, pixels and rectangles of kernel/vbe.c.               *)
(*                                                                         *)
(* A step calls one function with one input.  A character is a number,     *)
(* a string a sequence without its terminating 0.                          *)
(***************************************************************************)
EXTENDS Integers, Sequences

CONSTANTS
  MEM, WORD,                      \* bytes of memory, bytes of a word
  Letters,                        \* characters of the strings: capitals, and others CASE_GAP above
  CASE_GAP,                       \* 'a' - 'A'
  MaxText,                        \* length of the strings
  INT_BITS,                       \* width of an int
  BYTE_BITS,                      \* width of a byte of a packet
  NAME_LEN, EXT_LEN,              \* 8 and 3
  SIDE,                           \* of a framebuffer
  Parts,                          \* digits between the dots of an address
  Uptimes                         \* seconds

VARIABLE call                     \* the function called and its input
libVars == <<call>>

Texts == UNION {[1..n -> Letters] : n \in 0..MaxText}
Upper(c) == c \in Letters /\ c + CASE_GAP \in Letters
\* *(s + i): the character or the 0 that ends the string.
CharAt(s, i) == IF i \in 1..Len(s) THEN s[i] ELSE 0

-----------------------------------------------------------------------------
(***************************************************************************)
(* Memory: a function from addresses to values.                            *)
(***************************************************************************)
\* Moves w bytes in one access: all are read before one is written.
Access(m, d, s, w) == [a \in DOMAIN m |-> IF a \in d..(d + w - 1) THEN m[s + a - d] ELSE m[a]]
Set(m, d, val, w) == [a \in DOMAIN m |-> IF a \in d..(d + w - 1) THEN val ELSE m[a]]

memset(m, dest, val, len) ==
  LET head == IF len >= WORD THEN (WORD - (dest % WORD)) % WORD ELSE 0
      words == IF len >= WORD THEN (len - head) \div WORD ELSE 0
      start == dest + head + words * WORD
      w[k \in 0..words] == IF k = 0 THEN Set(m, dest, val, head) ELSE Set(w[k - 1], dest + head + (k - 1) * WORD, val, WORD)
  IN Set(w[words], start, val, len - head - words * WORD)

MutForward(m, d, s, len) ==
  LET f[k \in 0..len] == IF k = 0 THEN m ELSE Access(f[k - 1], d + k - 1, s + k - 1, 1)
  IN f[len]
memcpy(m, d, s, len) ==
  LET back[k \in 0..len] == IF k = 0 THEN m ELSE Access(back[k - 1], d + len - k, s + len - k, 1)
      words == IF len >= WORD /\ d % WORD = 0 /\ s % WORD = 0 THEN len \div WORD ELSE 0
      w[k \in 0..words] == IF k = 0 THEN m ELSE Access(w[k - 1], d + (k - 1) * WORD, s + (k - 1) * WORD, WORD)
      b[k \in (words * WORD)..len] == IF k = words * WORD THEN w[words] ELSE Access(b[k - 1], d + k - 1, s + k - 1, 1)
  IN IF d = s \/ len = 0 THEN m ELSE IF d > s /\ d < s + len THEN back[len] ELSE b[len]

-----------------------------------------------------------------------------
(***************************************************************************)
(* Strings.                                                                *)
(***************************************************************************)
to_lower_ch(c) == IF Upper(c) THEN c + CASE_GAP ELSE c
\* Where the loops of strcmp and its like stop: a difference, an end or n characters.
Stop(s, t, n, fold) ==
  LET f[i \in 1..(n + 1)] == IF i > n \/ CharAt(s, i) = 0 \/ fold[CharAt(s, i)] # fold[CharAt(t, i)] THEN i ELSE f[i + 1]
  IN f[1]
strncasecmp(s, t, n) ==
  LET i == Stop(s, t, n, [c \in Letters \cup {0} |-> to_lower_ch(c)])
  IN IF i > n THEN 0 ELSE to_lower_ch(CharAt(s, i)) - to_lower_ch(CharAt(t, i))
strncmp(s, t, n) ==
  LET i == Stop(s, t, n, [c \in Letters \cup {0} |-> c])
  IN IF i > n THEN 0 ELSE CharAt(s, i) - CharAt(t, i)
\* The n bytes that strncpy writes.
strncpy(s, n) == [i \in 1..n |-> CharAt(s, i)]
\* The index of the first occurrence, 0 for NULL.
strstr(hay, needle) ==
  LET From(i) == SubSeq(hay, i, Len(hay))
      f[i \in 1..(Len(hay) + 1)] ==
        IF i > Len(hay) THEN 0 ELSE IF hay[i] = CharAt(needle, 1) /\ strncmp(From(i), needle, Len(needle)) = 0 THEN i ELSE f[i + 1]
  IN IF needle = <<>> THEN 1 ELSE f[1]

-----------------------------------------------------------------------------
(***************************************************************************)
(* Numbers.  An int wraps; the digits are the numbers 0 to 9.              *)
(***************************************************************************)
Minus == 10
WrapInt(v) == ((v + 2^(INT_BITS - 1)) % 2^INT_BITS) - 2^(INT_BITS - 1)
k_utoa(val, base) ==
  LET f[v \in 0..val] == IF v = 0 THEN <<>> ELSE Append(f[v \div base], v % base)
  IN IF val = 0 THEN <<0>> ELSE f[val]
k_itoa(val) == IF val < 0 THEN <<Minus>> \o k_utoa(-val, 10) ELSE k_utoa(val, 10)
k_atoi(s) ==
  LET from == IF CharAt(s, 1) = Minus THEN 2 ELSE 1
      f[i \in (from - 1)..Len(s)] == IF i = from - 1 THEN 0 ELSE WrapInt(f[i - 1] * 10 + s[i])
  IN WrapInt(f[Len(s)] * IF from = 2 THEN -1 ELSE 1)

-----------------------------------------------------------------------------
(***************************************************************************)
(* kernel/net.c                                                            *)
(***************************************************************************)
BYTE == 2^BYTE_BITS
net_checksum(p) ==
  LET f[i \in 0..Len(p)] == IF i = 0 THEN 0 ELSE f[i - 1] + (IF i % 2 = 1 THEN p[i] * BYTE ELSE p[i])
      fold[s \in 0..f[Len(p)]] == IF s < BYTE * BYTE THEN s ELSE fold[(s % (BYTE * BYTE)) + (s \div (BYTE * BYTE))]
  IN (BYTE * BYTE) - 1 - fold[f[Len(p)]]

Dot == 11
Space == 12
Other == 13
\* The four numbers of an address, or <<>> for -1.
net_parse_ip(s) ==
  LET Fail == [idx |-> 0, has |-> FALSE, parts |-> <<>>]
      step(st, c) ==
        IF st.parts = <<>> THEN st
        ELSE IF c \in 0..9 THEN LET v == st.parts[st.idx + 1] * 10 + c
                                IN IF v > 255 THEN Fail ELSE [st EXCEPT !.parts[st.idx + 1] = v, !.has = TRUE]
        ELSE IF c = Dot /\ st.has /\ st.idx < 3 THEN [st EXCEPT !.idx = @ + 1, !.has = FALSE]
        ELSE Fail
      ends == {i \in 1..Len(s) : s[i] = Space}
      last == IF ends = {} THEN Len(s) ELSE (CHOOSE i \in ends : \A j \in ends : i <= j) - 1
      f[i \in 0..last] == IF i = 0 THEN [idx |-> 0, has |-> FALSE, parts |-> <<0, 0, 0, 0>>] ELSE step(f[i - 1], s[i])
  IN IF f[last].has /\ f[last].idx = 3 THEN f[last].parts ELSE <<>>
net_format_ip(q) == k_utoa(q[1], 10) \o <<Dot>> \o k_utoa(q[2], 10) \o <<Dot>> \o k_utoa(q[3], 10) \o <<Dot>> \o k_utoa(q[4], 10)

-----------------------------------------------------------------------------
(***************************************************************************)
(* kernel/fat.c                                                            *)
(***************************************************************************)
Slash == 14
ToUpper(c) == IF c - CASE_GAP \in Letters THEN c - CASE_GAP ELSE c
Pad(s, n) == [i \in 1..n |-> IF i <= Len(s) THEN ToUpper(s[i]) ELSE Space]
Cut(s, first, n) == SubSeq(s, first, IF first + n - 1 < Len(s) THEN first + n - 1 ELSE Len(s))
\* The padded name and extension, or <<>> for -1.
filename_to_fat(s) ==
  LET skip[i \in 1..(Len(s) + 1)] == IF CharAt(s, i) \in {Space, Slash} THEN skip[i + 1] ELSE i
      t == SubSeq(s, skip[1], Len(s))
      dot[i \in 1..(Len(t) + 1)] == IF CharAt(t, i) \in {0, Dot} THEN i ELSE dot[i + 1]
      name == Cut(SubSeq(t, 1, dot[1] - 1), 1, NAME_LEN)
      ext == Cut(t, dot[1] + 1, EXT_LEN)
      Bad(part) == \E i \in 1..Len(part) : part[i] \in {Space, Slash}
  IN IF Bad(name) \/ Bad(ext) \/ name = <<>> THEN <<>> ELSE <<Pad(name, NAME_LEN), Pad(ext, EXT_LEN)>>
fat_name_to_str(ent) ==
  LET Shown(part) == SelectSeq(part, LAMBDA c : c # Space)
  IN Shown(ent[1]) \o IF ent[2][1] = Space THEN <<>> ELSE <<Dot>> \o Shown(ent[2])

\* The digits of the days, hours, minutes and seconds.
timer_format_uptime(total) ==
  LET days == total \div 86400
      Two(v) == <<(v \div 10) % 10, v % 10>>
  IN <<IF days = 0 THEN <<>>
       ELSE (IF days >= 100 THEN <<(days \div 100) % 10>> ELSE <<>>)
            \o (IF days >= 10 THEN <<(days \div 10) % 10>> ELSE <<>>) \o <<days % 10>>,
       Two((total % 86400) \div 3600), Two((total % 3600) \div 60), Two(total % 60)>>

-----------------------------------------------------------------------------
(***************************************************************************)
(* kernel/vbe.c.  A colour is its channels; pos says which byte of a pixel *)
(* holds each, and bytes how many a pixel has.                             *)
(***************************************************************************)
pack_hw_color(c, pos) == c[1] * BYTE^pos[1] + c[2] * BYTE^pos[2] + c[3] * BYTE^pos[3]
unpack_hw_color(hw, pos) == [i \in 1..3 |-> (hw \div BYTE^pos[i]) % BYTE]
\* The pixel as vbe_putpixel stores and vbe_getpixel reads it.
vbe_putpixel(c, pos, bytes) == pack_hw_color(c, pos) % BYTE^bytes
vbe_getpixel(stored, pos) == unpack_hw_color(stored, pos)

\* The pixels that are set, on a framebuffer of SIDE by SIDE.
vbe_fill_rect(x, y, w, h) ==
  IF w = 0 \/ h = 0 \/ x >= SIDE \/ y >= SIDE THEN {}
  ELSE (x..(IF x + w > SIDE THEN SIDE - 1 ELSE x + w - 1)) \X (y..(IF y + h > SIDE THEN SIDE - 1 ELSE y + h - 1))
Least(a, b) == IF a < b THEN a ELSE b
Thickness(t, w, h) == LET u == Least(t, Least(h \div 2, w \div 2)) IN IF u = 0 THEN 1 ELSE u
vbe_draw_rect(x, y, w, h, thick) ==
  LET t == Thickness(thick, w, h)
  IN IF thick = 0 \/ w = 0 \/ h = 0 THEN {}
     ELSE vbe_fill_rect(x, y, w, t)
          \cup (IF h > t THEN vbe_fill_rect(x, y + h - t, w, t) ELSE {})
          \cup (IF h > 2 * t THEN vbe_fill_rect(x, y + t, t, h - 2 * t) ELSE {})
          \cup (IF h > 2 * t /\ w > t THEN vbe_fill_rect(x + w - t, y + t, t, h - 2 * t) ELSE {})

-----------------------------------------------------------------------------
LibraryInit == call = [op |-> "none"]
Calls(c) == call' = c

call_memory ==
  \E d \in 0..(MEM - 1), s \in 0..(MEM - 1), len \in 0..MEM, op \in {"memset", "memcpy"} :
    d + len <= MEM /\ s + len <= MEM /\ (op = "memset" => s = d) /\ Calls([op |-> op, d |-> d, s |-> s, len |-> len])
call_strings == \E s \in Texts, t \in {u \in Texts : Len(u) < MaxText}, n \in {0, 2, MaxText + 1} :
  Calls([op |-> "strings", s |-> s, t |-> t, n |-> n])
call_number == \E v \in (1 - 2^(INT_BITS - 1))..(2^(INT_BITS - 1) - 1) : Calls([op |-> "number", v |-> v])
call_checksum == \E n \in 0..3 : \E data \in [1..n -> 0..(BYTE - 1)] : Calls([op |-> "checksum", data |-> data])
call_address == \E n \in 3..5 : \E parts \in [1..n -> Parts], end \in {<<>>, <<Space, Other>>, <<Other>>} :
  Calls([op |-> "address", parts |-> parts, end |-> end])
call_file_name == \E n \in 0..5 : \E s \in [1..n -> {Dot, Space, Slash} \cup {c \in Letters : Upper(c - CASE_GAP)}] :
  Calls([op |-> "name", s |-> s])
call_uptime == \E t \in Uptimes : Calls([op |-> "uptime", t |-> t])

call_pixel == \E c \in [1..3 -> {0, 1, BYTE - 1}], bytes \in {3, 4} :
  \E pos \in {p \in [1..3 -> 0..(bytes - 1)] : \A i, j \in 1..3 : i # j => p[i] # p[j]} :
    Calls([op |-> "pixel", c |-> c, pos |-> pos, bytes |-> bytes])
call_rectangle == \E x, y \in {0, 2}, w, h \in 0..SIDE, t \in 0..2 : Calls([op |-> "rect", x |-> x, y |-> y, w |-> w, h |-> h, t |-> t])

LibraryNext ==
  /\ call.op = "none"
  /\ \/ call_memory \/ call_strings \/ call_number \/ call_checksum \/ call_address \/ call_file_name \/ call_uptime
     \/ call_pixel \/ call_rectangle

-----------------------------------------------------------------------------
Memory == [a \in 0..(MEM - 1) |-> a]
\* Copying between areas that overlap in either direction gives the old bytes.
MemoryRight ==
  LET m == IF call.op = "memset" THEN memset(Memory, call.d, MEM, call.len) ELSE memcpy(Memory, call.d, call.s, call.len)
  IN \A a \in DOMAIN Memory : m[a] = IF a \notin call.d..(call.d + call.len - 1) THEN a
                                     ELSE IF call.op = "memset" THEN MEM ELSE call.s + a - call.d

\* A comparison is 0 exactly for equal prefixes and changes sign with its arguments,
\* a copy is the string padded or cut, and a search finds the first place.
StringsRight ==
  LET s == call.s
      t == call.t
      n == call.n
      Low(x) == [i \in 1..Len(x) |-> to_lower_ch(x[i])]
  IN /\ strncmp(s, t, n) = 0 <=> Cut(s, 1, n) = Cut(t, 1, n)
     /\ strncasecmp(s, t, n) = 0 <=> Low(Cut(s, 1, n)) = Low(Cut(t, 1, n))
     /\ strncasecmp(s, t, n) = -strncasecmp(t, s, n)
     /\ strncpy(s, n) = Cut(s, 1, n) \o [i \in 1..(n - Len(Cut(s, 1, n))) |-> 0]
     /\ LET places == {i \in 1..(Len(s) + 1) : i + Len(t) <= Len(s) + 1 /\ SubSeq(s, i, i + Len(t) - 1) = t}
        IN strstr(s, t) = IF places = {} THEN 0 ELSE CHOOSE i \in places : \A j \in places : i <= j

\* A checksummed packet sums to 0, and none does with one byte changed.
ChecksumRight ==
  LET c == net_checksum(<<0, 0>> \o call.data)
      packet == <<c \div BYTE, c % BYTE>> \o call.data
  IN /\ net_checksum(packet) = 0
     /\ \A i \in 1..Len(packet), b \in 0..(BYTE - 1) : b # packet[i] => net_checksum([packet EXCEPT ![i] = b]) # 0

Decimal(digits) == LET f[i \in 0..Len(digits)] == IF i = 0 THEN 0 ELSE f[i - 1] * 10 + digits[i] IN f[Len(digits)]
\* Exactly the addresses of four numbers up to 255 are accepted, and printing one and
\* reading it again gives it back.
AddressRight ==
  LET text[n \in 1..Len(call.parts)] == IF n = 1 THEN call.parts[1] ELSE text[n - 1] \o <<Dot>> \o call.parts[n]
      ip == net_parse_ip(text[Len(call.parts)] \o call.end)
      good == /\ Len(call.parts) = 4 /\ CharAt(call.end, 1) \in {0, Space}
              /\ \A n \in 1..4 : call.parts[n] # <<>> /\ Decimal(call.parts[n]) <= 255
  IN IF good THEN ip = [n \in 1..4 |-> Decimal(call.parts[n])] /\ net_parse_ip(net_format_ip(ip)) = ip ELSE ip = <<>>

\* The name that a listing shows opens the file it was listed for.
FileNameRight == LET ent == filename_to_fat(call.s) IN ent # <<>> => filename_to_fat(fat_name_to_str(ent)) = ent

\* A pixel that is read and put back, as under the mouse pointer, stays as it was.
PixelRight ==
  LET stored == vbe_putpixel(call.c, call.pos, call.bytes)
  IN vbe_getpixel(stored, call.pos) = call.c /\ vbe_putpixel(vbe_getpixel(stored, call.pos), call.pos, call.bytes) = stored

\* A frame is the pixels of a rectangle near its border, as far as it is on the screen.
FrameRight ==
  LET t == Thickness(call.t, call.w, call.h)
      Border(i, j) == Least(Least(i, call.w - 1 - i), Least(j, call.h - 1 - j)) < t
      frame == {<<call.x + i, call.y + j>> : <<i, j>> \in {p \in (0..(call.w - 1)) \X (0..(call.h - 1)) : Border(p[1], p[2])}}
  IN vbe_draw_rect(call.x, call.y, call.w, call.h, call.t) =
       IF call.t = 0 THEN {} ELSE {p \in frame : p[1] < SIDE /\ p[2] < SIDE}

\* The functions that everything else relies on do what they are for.
LibraryCorrect ==
  CASE call.op = "none" -> TRUE
    [] call.op \in {"memset", "memcpy"} -> MemoryRight
    [] call.op = "strings" -> StringsRight
    [] call.op = "number" -> k_atoi(k_itoa(call.v)) = call.v
    [] call.op = "checksum" -> ChecksumRight
    [] call.op = "address" -> AddressRight
    [] call.op = "name" -> FileNameRight
    [] call.op = "pixel" -> PixelRight
    [] call.op = "rect" -> FrameRight
    [] call.op = "uptime" -> LET u == timer_format_uptime(call.t)
                             IN Decimal(u[1]) * 86400 + Decimal(u[2]) * 3600 + Decimal(u[3]) * 60 + Decimal(u[4]) = call.t
=============================================================================
