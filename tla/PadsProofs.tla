------------------------------- MODULE PadsProofs --------------------------
(***************************************************************************)
(* The pads are configured together, and the pins change from word to      *)
(* word, whatever the programs show.                                       *)
(*                                                                         *)
(* The argument follows the modes.  Every program names each of its pads   *)
(* once (IsList), so a register, written byte by byte, ends with its mode  *)
(* (RegisterInv).  The transfer is asked for after the last mode, so the   *)
(* loader fetches what is Wanted (Configured).  While it sends word c of   *)
(* each chain, a pad that the words have reached exchanges one word of     *)
(* Wanted for the next, bit by bit (Contents), and the bits it gives up    *)
(* are those its neighbour takes; with the last word every pad holds its   *)
(* own.  The pins wait in mgmt_gpio_data_buf for their last byte           *)
(* (DataInv).                                                              *)
(***************************************************************************)
EXTENDS Pads, TLAPS

-----------------------------------------------------------------------------
(* The lists of modes.                                                      *)

Settings == 0 .. 8191
Entries == AllPads \X Settings
OfLength(S, s, m) == s \in Seq(S) /\ Len(s) = m

\* A list of modes in which no pad occurs twice.
IsList(s) ==
  /\ OfLength(Entries, s, 32)
  /\ \A k \in 1 .. 32 : s[k][1] \in AllPads /\ s[k][2] \in Settings
  /\ \A j, k \in 1 .. 32 : s[j][1] = s[k][1] => j = k

Falls(s, from, mode, m) == \A k \in 1 .. m : s[k] = <<from - k + 1, mode>>
Joins(r, s, t, m, n) == \A k \in 1 .. m + n : r[k] = IF k <= m THEN s[k] ELSE t[k - m]

\* A pad and a mode make an entry of a list.
LEMMA IsPair ==
  ASSUME NEW A, NEW B, NEW p \in A, NEW m \in B
  PROVE  <<p, m>> \in A \X B
OBVIOUS

\* A stretch of pads from the highest down.
LEMMA DownList ==
  ASSUME NEW from \in AllPads, NEW to \in AllPads, to <= from, NEW mode \in Settings
  PROVE  /\ OfLength(Entries, Down(from, to, mode), from - to + 1)
         /\ Falls(Down(from, to, mode), from, mode, from - to + 1)
<1> DEFINE size == from - to + 1
           entry(k) == <<from - k + 1, mode>>
<1>1. ASSUME NEW k \in 1 .. size
      PROVE  entry(k) \in Entries
  <2> DEFINE p == from - k + 1
  <2>1. p \in AllPads
    BY DEF AllPads, Chain
  <2> HIDE DEF p
  <2>2. <<p, mode>> \in Entries
    BY <2>1, IsPair DEF Entries
  <2>3. QED
    BY <2>2 DEF p
<1>2. size \in Nat
  BY DEF AllPads, Chain
<1>3. Down(from, to, mode) = [k \in 1 .. size |-> entry(k)]
  BY DEF Down
<1> HIDE DEF size, entry
<1>4. /\ Down(from, to, mode) \in Seq(Entries)
      /\ Len(Down(from, to, mode)) = size
      /\ \A k \in 1 .. size : Down(from, to, mode)[k] = entry(k)
  BY <1>1, <1>2, <1>3
<1>5. QED
  BY <1>4 DEF size, entry, OfLength, Falls

\* Two lists, one after the other.
LEMMA Appended ==
  ASSUME NEW m \in Nat, NEW n \in Nat, NEW S, NEW s, NEW t, OfLength(S, s, m), OfLength(S, t, n)
  PROVE  OfLength(S, s \o t, m + n) /\ Joins(s \o t, s, t, m, n)
BY DEF OfLength, Joins

\* The list of the integrated program: the pads from the highest down but 5 and 6,
\* which come last.
LEMMA IntegrateList == IsList(IntegrateModes)
<1> DEFINE std == GPIO_MODE_MGMT_STD_OUTPUT
           out == GPIO_MODE_USER_STD_OUTPUT
           in == GPIO_MODE_USER_STD_INPUT_NOPULL
           a == Down(31, 16, std)
           b == Down(15, 7, std)
           c == Down(4, 0, std)
           d == <<<<6, out>>, <<5, in>>>>
<1>1. std \in Settings /\ out \in Settings /\ in \in Settings
  BY DEF GPIO_MODE_MGMT_STD_OUTPUT, GPIO_MODE_USER_STD_OUTPUT, GPIO_MODE_USER_STD_INPUT_NOPULL,
         Settings
<1> HIDE DEF std, out, in
<1>2. OfLength(Entries, a, 16) /\ Falls(a, 31, std, 16)
  <2>1. 31 \in AllPads /\ 16 \in AllPads /\ 16 <= 31
    BY DEF AllPads, Chain
  <2>2. OfLength(Entries, a, 31 - 16 + 1) /\ Falls(a, 31, std, 31 - 16 + 1)
    BY <1>1, <2>1, DownList
  <2>3. QED
    BY <2>2
<1>3. OfLength(Entries, b, 9) /\ Falls(b, 15, std, 9)
  <2>1. 15 \in AllPads /\ 7 \in AllPads /\ 7 <= 15
    BY DEF AllPads, Chain
  <2>2. OfLength(Entries, b, 15 - 7 + 1) /\ Falls(b, 15, std, 15 - 7 + 1)
    BY <1>1, <2>1, DownList
  <2>3. QED
    BY <2>2
<1>4. OfLength(Entries, c, 5) /\ Falls(c, 4, std, 5)
  <2>1. 4 \in AllPads /\ 0 \in AllPads /\ 0 <= 4
    BY DEF AllPads, Chain
  <2>2. OfLength(Entries, c, 4 - 0 + 1) /\ Falls(c, 4, std, 4 - 0 + 1)
    BY <1>1, <2>1, DownList
  <2>3. QED
    BY <2>2
<1>5. OfLength(Entries, d, 2)
  <2>1. 6 \in AllPads /\ 5 \in AllPads
    BY DEF AllPads, Chain
  <2>2. <<6, out>> \in Entries /\ <<5, in>> \in Entries
    BY ONLY <1>1, <2>1, IsPair DEF Entries
  <2>3. QED
    BY <2>2 DEF OfLength
<1>6. d[1] = <<6, out>> /\ d[2] = <<5, in>>
  OBVIOUS
<1> HIDE DEF a, b, c, d
<1> DEFINE ab == a \o b
           abc == ab \o c
           all == abc \o d
<1>7. OfLength(Entries, ab, 25) /\ Joins(ab, a, b, 16, 9)
  BY <1>2, <1>3, Appended
<1> HIDE DEF ab
<1>8. OfLength(Entries, abc, 30) /\ Joins(abc, ab, c, 25, 5)
  BY <1>4, <1>7, Appended
<1> HIDE DEF abc
<1>9. OfLength(Entries, all, 32) /\ Joins(all, abc, d, 30, 2)
  BY <1>5, <1>8, Appended
<1> HIDE DEF all
<1>10. \A k \in 1 .. 16 : all[k] = a[k] /\ a[k] = <<32 - k, std>>
  BY <1>2, <1>7, <1>8, <1>9 DEF Joins, Falls
<1>11. \A k \in 17 .. 25 : all[k] = <<32 - k, std>>
  BY <1>3, <1>7, <1>8, <1>9 DEF Joins, Falls
<1>12. \A k \in 26 .. 30 : all[k] = <<30 - k, std>>
  BY <1>4, <1>8, <1>9 DEF Joins, Falls
<1>13. all[31] = <<6, out>> /\ all[32] = <<5, in>>
  BY <1>6, <1>9 DEF Joins
<1>14. IntegrateModes = all
  BY DEF IntegrateModes, all, abc, ab, a, b, c, d, std, out, in, Checkbits
<1>15. /\ \A k \in 1 .. 25 : all[k][1] = 32 - k /\ all[k][2] = std
       /\ \A k \in 26 .. 30 : all[k][1] = 30 - k /\ all[k][2] = std
       /\ all[31][1] = 6 /\ all[31][2] = out /\ all[32][1] = 5 /\ all[32][2] = in
  BY <1>10, <1>11, <1>12, <1>13
<1>16. \A k \in 1 .. 32 : all[k][1] \in AllPads /\ all[k][2] \in Settings
  BY <1>1, <1>15 DEF AllPads, Chain
<1>17. \A j, k \in 1 .. 32 : all[j][1] = all[k][1] => j = k
  <2> DEFINE pad(k) == IF k <= 25 THEN 32 - k ELSE IF k <= 30 THEN 30 - k ELSE 37 - k
  <2>1. \A j, k \in 1 .. 32 : pad(j) = pad(k) => j = k
    OBVIOUS
  <2>2. \A k \in 1 .. 32 : all[k][1] = pad(k)
    BY <1>15
  <2> HIDE DEF pad
  <2>3. QED
    BY <2>1, <2>2
<1>18. QED
  BY <1>9, <1>14, <1>16, <1>17 DEF IsList

\* The other programs give the upper pads first too, and pad 6 last.
LEMMA MmList == IsList(MmModes)
<1> DEFINE std == GPIO_MODE_MGMT_STD_OUTPUT
           out == GPIO_MODE_USER_STD_OUTPUT
           a == Down(31, 16, std)
           b == Down(15, 7, out)
           c == Down(5, 0, out)
           d == <<<<6, std>>>>
<1>1. std \in Settings /\ out \in Settings
  BY DEF GPIO_MODE_MGMT_STD_OUTPUT, GPIO_MODE_USER_STD_OUTPUT, Settings
<1> HIDE DEF std, out
<1>2. OfLength(Entries, a, 16) /\ Falls(a, 31, std, 16)
  <2>1. 31 \in AllPads /\ 16 \in AllPads /\ 16 <= 31
    BY DEF AllPads, Chain
  <2>2. OfLength(Entries, a, 31 - 16 + 1) /\ Falls(a, 31, std, 31 - 16 + 1)
    BY <1>1, <2>1, DownList
  <2>3. QED
    BY <2>2
<1>3. OfLength(Entries, b, 9) /\ Falls(b, 15, out, 9)
  <2>1. 15 \in AllPads /\ 7 \in AllPads /\ 7 <= 15
    BY DEF AllPads, Chain
  <2>2. OfLength(Entries, b, 15 - 7 + 1) /\ Falls(b, 15, out, 15 - 7 + 1)
    BY <1>1, <2>1, DownList
  <2>3. QED
    BY <2>2
<1>4. OfLength(Entries, c, 6) /\ Falls(c, 5, out, 6)
  <2>1. 5 \in AllPads /\ 0 \in AllPads /\ 0 <= 5
    BY DEF AllPads, Chain
  <2>2. OfLength(Entries, c, 5 - 0 + 1) /\ Falls(c, 5, out, 5 - 0 + 1)
    BY <1>1, <2>1, DownList
  <2>3. QED
    BY <2>2
<1>5. OfLength(Entries, d, 1)
  <2>1. 6 \in AllPads
    BY DEF AllPads, Chain
  <2>2. <<6, std>> \in Entries
    BY ONLY <1>1, <2>1, IsPair DEF Entries
  <2>3. QED
    BY <2>2 DEF OfLength
<1>6. d[1] = <<6, std>>
  OBVIOUS
<1> HIDE DEF a, b, c, d
<1> DEFINE ab == a \o b
           abc == ab \o c
           all == abc \o d
<1>7. OfLength(Entries, ab, 25) /\ Joins(ab, a, b, 16, 9)
  BY <1>2, <1>3, Appended
<1> HIDE DEF ab
<1>8. OfLength(Entries, abc, 31) /\ Joins(abc, ab, c, 25, 6)
  BY <1>4, <1>7, Appended
<1> HIDE DEF abc
<1>9. OfLength(Entries, all, 32) /\ Joins(all, abc, d, 31, 1)
  BY <1>5, <1>8, Appended
<1> HIDE DEF all
<1>10. \A k \in 1 .. 16 : all[k] = a[k] /\ a[k] = <<32 - k, std>>
  BY <1>2, <1>7, <1>8, <1>9 DEF Joins, Falls
<1>11. \A k \in 17 .. 25 : all[k] = <<32 - k, out>>
  BY <1>3, <1>7, <1>8, <1>9 DEF Joins, Falls
<1>12. \A k \in 26 .. 31 : all[k] = <<31 - k, out>>
  BY <1>4, <1>8, <1>9 DEF Joins, Falls
<1>13. all[32] = <<6, std>>
  BY <1>6, <1>9 DEF Joins
<1>14. MmModes = all
  BY DEF MmModes, all, abc, ab, a, b, c, d, std, out, Checkbits
<1>15. /\ \A k \in 1 .. 25 : all[k][1] = 32 - k /\ all[k][2] \in {std, out}
       /\ \A k \in 26 .. 31 : all[k][1] = 31 - k /\ all[k][2] = out
       /\ all[32][1] = 6 /\ all[32][2] = std
  BY <1>10, <1>11, <1>12, <1>13
<1>16. \A k \in 1 .. 32 : all[k][1] \in AllPads /\ all[k][2] \in Settings
  BY <1>1, <1>15 DEF AllPads, Chain
<1>17. \A j, k \in 1 .. 32 : all[j][1] = all[k][1] => j = k
  <2> DEFINE pad(k) == IF k <= 25 THEN 32 - k ELSE IF k <= 31 THEN 31 - k ELSE 6
  <2>1. \A j, k \in 1 .. 32 : pad(j) = pad(k) => j = k
    OBVIOUS
  <2>2. \A k \in 1 .. 32 : all[k][1] = pad(k)
    BY <1>15
  <2> HIDE DEF pad
  <2>3. QED
    BY <2>1, <2>2
<1>18. QED
  BY <1>9, <1>14, <1>16, <1>17 DEF IsList

\* Every program writes 32 modes, of 32 different pads.
LEMMA AllLists ==
  ASSUME program \in Programs
  PROVE  IsList(Modes(program))
BY IntegrateList, MmList DEF Programs, Modes, UartModes, QsModes, FirModes, ExmemModes,
                             CaravelFirModes

\* What a program wants of a pad that is in its list, and of one that is not.
LEMMA WantedModes ==
  ASSUME program \in Programs
  PROVE  LET m == Modes(program) IN
         /\ Wanted \in [AllPads -> Settings]
         /\ \A k \in 1 .. 32 : Wanted[m[k][1]] = m[k][2]
         /\ \A pad \in AllPads : (\A k \in 1 .. 32 : m[k][1] # pad) => Wanted[pad] = ResetMode(pad)
<1> DEFINE m == Modes(program)
<1>1. IsList(m)
  BY AllLists
<1> HIDE DEF m
<1>2. DOMAIN m = 1 .. 32
  BY <1>1 DEF IsList, OfLength
<1> DEFINE listed(pad) == \E k \in 1 .. 32 : m[k][1] = pad
           at(pad) == CHOOSE k \in 1 .. 32 : m[k][1] = pad
<1>3. Wanted = [pad \in AllPads |-> IF listed(pad) THEN m[at(pad)][2] ELSE ResetMode(pad)]
  BY <1>2 DEF Wanted, m
<1>4. \A pad \in AllPads : listed(pad) => at(pad) \in 1 .. 32 /\ m[at(pad)][1] = pad
  OBVIOUS
<1>5. \A pad \in AllPads : ResetMode(pad) \in Settings
  BY DEF ResetMode, Settings
<1> HIDE DEF at
<1>6. Wanted \in [AllPads -> Settings]
  BY <1>1, <1>3, <1>4, <1>5 DEF IsList
<1>7. ASSUME NEW k \in 1 .. 32
      PROVE  Wanted[m[k][1]] = m[k][2]
  <2>1. m[k][1] \in AllPads /\ listed(m[k][1])
    BY <1>1 DEF IsList
  <2>2. at(m[k][1]) = k
    BY <1>1, <1>4, <2>1 DEF IsList
  <2>3. QED
    BY <1>3, <2>1, <2>2
<1>8. ASSUME NEW pad \in AllPads, \A k \in 1 .. 32 : m[k][1] # pad
      PROVE  Wanted[pad] = ResetMode(pad)
  BY <1>3, <1>8
<1>9. QED
  BY <1>6, <1>7, <1>8 DEF m

-----------------------------------------------------------------------------
(* The list of accesses.                                                    *)

IsModeWrite(access, entry) ==
  access = Write(reg_mprj_io(entry[1]), Lower(entry[2]))
IsUpper(bytes) == \E w : bytes = Upper(w)
IsWordWrite(access) == access.we /\ access.adr = reg_mprj_datal /\ IsUpper(access.bytes)

\* The accesses of a program with these modes.
IsProgram(s, m) ==
  /\ \E n \in Nat : Len(s) = 34 + n /\ DOMAIN s = 1 .. 34 + n
  /\ \A k \in 1 .. 32 : IsModeWrite(s[k], m[k])
  /\ s[33] = Write(reg_mprj_xfer, Lower(1))
  /\ s[34] = Read(reg_mprj_xfer)
  /\ \A k \in DOMAIN s : k >= 35 => IsWordWrite(s[k])

\* The accesses of a program: its 32 modes, the request, the wait for its end,
\* and the words.
LEMMA AccessesInOrder ==
  ASSUME program \in Programs, NEW result
  PROVE  IsProgram(Accesses(program, result), Modes(program))
<1> DEFINE m == Modes(program)
           words == Words(program, result)
           n == Len(words)
           modeWrite(k) == Write(reg_mprj_io(m[k][1]), Lower(m[k][2]))
           wordWrite(k) == Write(reg_mprj_datal, Upper(words[k]))
           a == [k \in 1 .. 32 |-> modeWrite(k)]
           b == <<Write(reg_mprj_xfer, Lower(1)), Read(reg_mprj_xfer)>>
           c == [k \in 1 .. n |-> wordWrite(k)]
           S == {modeWrite(k) : k \in 1 .. 32} \cup {b[1], b[2]} \cup {wordWrite(k) : k \in 1 .. n}
<1>1. Len(m) = 32
  BY AllLists DEF IsList, OfLength
<1>2. n \in Nat
  BY DEF Words, Programs
<1>3. Accesses(program, result) = a \o b \o c
  BY <1>1 DEF Accesses
<1> HIDE DEF m, n, words, modeWrite, wordWrite
<1>4. OfLength(S, a, 32)
  BY DEF OfLength
<1>5. OfLength(S, b, 2)
  BY DEF OfLength
<1>6. OfLength(S, c, n)
  BY <1>2 DEF OfLength
<1> HIDE DEF S
<1>7. /\ \A k \in 1 .. 32 : a[k] = modeWrite(k)
      /\ b[1] = Write(reg_mprj_xfer, Lower(1)) /\ b[2] = Read(reg_mprj_xfer)
      /\ \A k \in 1 .. n : c[k] = wordWrite(k)
  OBVIOUS
<1> HIDE DEF a, b, c
<1> DEFINE ab == a \o b
           all == ab \o c
<1>8. OfLength(S, ab, 34) /\ Joins(ab, a, b, 32, 2)
  BY <1>4, <1>5, Appended
<1> HIDE DEF ab
<1>9. OfLength(S, all, 34 + n) /\ Joins(all, ab, c, 34, n)
  BY <1>2, <1>6, <1>8, Appended
<1> HIDE DEF all
<1>10. \A k \in 1 .. 32 : all[k] = modeWrite(k)
  BY <1>2, <1>7, <1>8, <1>9 DEF Joins
<1>11. all[33] = Write(reg_mprj_xfer, Lower(1)) /\ all[34] = Read(reg_mprj_xfer)
  BY <1>2, <1>7, <1>8, <1>9 DEF Joins
<1>12. \A k \in 35 .. 34 + n : all[k] = wordWrite(k - 34)
  BY <1>2, <1>7, <1>9 DEF Joins
<1>13. Len(all) = 34 + n /\ DOMAIN all = 1 .. 34 + n
  BY <1>9 DEF OfLength
<1>14. Accesses(program, result) = all
  BY <1>3 DEF all, ab
<1>15. \A k \in 1 .. 32 : IsModeWrite(all[k], m[k])
  BY <1>10 DEF IsModeWrite, modeWrite
<1>16. \A k \in 35 .. 34 + n : IsWordWrite(all[k])
  <2>1. ASSUME NEW w
        PROVE  IsWordWrite(Write(reg_mprj_datal, Upper(w)))
    BY DEF IsWordWrite, IsUpper, Write
  <2>2. QED
    BY <1>12, <2>1 DEF wordWrite
<1>17. \A k \in 1 .. 34 + n : k >= 35 => IsWordWrite(all[k])
  BY <1>2, <1>16
<1>18. QED
  BY <1>2, <1>11, <1>13, <1>14, <1>15, <1>17 DEF IsProgram, m

-----------------------------------------------------------------------------
(* The back door.                                                           *)

\* The bytes of the access under way that have been read or written.
BytesDone == IF wbbd_state.s = "DONE" THEN 4 ELSE wbbd_state.byte

BackDoorInv ==
  /\ program \in Programs /\ IsProgram(accesses, Modes(program))
  /\ next \in Nat /\ 1 <= next
  /\ bus = NoAccess \/ (next \in DOMAIN accesses /\ bus = accesses[next])
  /\ wbbd_state \in [s : {"IDLE", "SETUP", "RW", "DONE"}, byte : 0 .. 3]
  /\ wbbd_state.s \in {"IDLE", "DONE"} => wbbd_state.byte = 0
  /\ wbbd_state.s # "IDLE" => bus # NoAccess

Listed(pad) == \E k \in 1 .. 32 : Modes(program)[k][1] = pad
Written(k) == k < next \/ (k = next /\ BytesDone >= 2)

\* What a register of mode g holds when the lower byte of v, or its upper byte,
\* is written.
LowerWritten(g, v) == (g \div 256) * 256 + (v % 256)
UpperWritten(g, v) == ((v \div 256) % 32) * 256 + (g % 256)
SameLower(g, v) == g % 256 = v % 256

RegisterInv ==
  /\ gpio_configure \in [AllPads -> Settings]
  /\ \A k \in 1 .. 32 : Written(k) => gpio_configure[Modes(program)[k][1]] = Modes(program)[k][2]
  /\ next <= 32 /\ BytesDone = 1 =>
       SameLower(gpio_configure[Modes(program)[next][1]], Modes(program)[next][2])
  /\ \A pad \in AllPads : ~Listed(pad) => gpio_configure[pad] = ResetMode(pad)
  /\ serial_xfer => next >= 33

DataInv ==
  /\ \E x, y, z : mgmt_gpio_data_buf = <<x, y, z>>
  /\ next >= 35 =>
       \A j \in 1 .. 3 : j <= BytesDone => mgmt_gpio_data_buf[j] = bus.bytes[j]

\* Where the bytes of a mode go, and those of a word.
LEMMA ModeAddresses ==
  ASSUME NEW p \in AllPads
  PROVE  /\ spiaddr(reg_mprj_io(p) + 0) = 30 + 2 * p
         /\ spiaddr(reg_mprj_io(p) + 1) = 29 + 2 * p
         /\ spiaddr(reg_mprj_io(p) + 2) = 0
         /\ spiaddr(reg_mprj_io(p) + 3) = 0
<1>1. p \in 0 .. 37
  BY DEF AllPads, Chain
<1>2. QED
  BY <1>1 DEF spiaddr, reg_mprj_io

\* Only the lowest byte of the request goes to a register.
LEMMA OtherAddresses ==
  /\ spiaddr(reg_mprj_datal + 0) = 109 /\ spiaddr(reg_mprj_datal + 1) = 108
  /\ spiaddr(reg_mprj_datal + 2) = 107 /\ spiaddr(reg_mprj_datal + 3) = 106
  /\ spiaddr(reg_mprj_xfer + 0) = 19 /\ spiaddr(reg_mprj_xfer + 1) = 0
  /\ spiaddr(reg_mprj_xfer + 2) = 0 /\ spiaddr(reg_mprj_xfer + 3) = 0
BY DEF spiaddr, reg_mprj_datal, reg_mprj_xfer

\* Each register answers to its own addresses.
LEMMA RegisterOf ==
  ASSUME NEW a, NEW byte
  PROVE  /\ WriteConfigure(a, byte) => a \in 29 .. 104
         /\ WriteData(a, byte) => a \in 106 .. 109
         /\ WriteTransfer(a, byte) => a = 19
<1>1. WriteConfigure(a, byte) => a \in 29 .. 104
  BY DEF WriteConfigure
<1>2. WriteData(a, byte) => a \in 106 .. 109
  BY DEF WriteData
<1>3. WriteTransfer(a, byte) => a = 19
  BY SMTT(30) DEF WriteTransfer
<1>4. QED
  BY <1>1, <1>2, <1>3

\* The lower byte and then the upper byte make the mode, whatever was there.
LEMMA BytesWritten ==
  ASSUME NEW g \in Settings, NEW v \in Settings
  PROVE  /\ LowerWritten(g, v) \in Settings /\ SameLower(LowerWritten(g, v), v)
         /\ UpperWritten(g, v) \in Settings
         /\ SameLower(g, v) => UpperWritten(g, v) = v
<1> USE DEF Settings, LowerWritten, UpperWritten, SameLower
<1>1. LowerWritten(g, v) \in Settings
  OBVIOUS
<1>2. SameLower(LowerWritten(g, v), v)
  OBVIOUS
<1>3. UpperWritten(g, v) \in Settings
  OBVIOUS
<1>4. (v \div 256) % 32 = v \div 256
  <2> DEFINE q == v \div 256
  <2>1. q \in 0 .. 31
    <3>1. v \div 256 \in Int
      OBVIOUS
    <3>2. v \div 256 <= 31
      OBVIOUS
    <3>3. v \div 256 >= 0
      OBVIOUS
    <3> HIDE DEF LowerWritten, UpperWritten, SameLower
    <3>4. q \in Int /\ q <= 31 /\ q >= 0
      BY <3>1, <3>2, <3>3
    <3> HIDE DEF q
    <3>5. QED
      BY <3>4
  <2> HIDE DEF q
  <2>2. \A x \in 0 .. 31 : x % 32 = x
    OBVIOUS
  <2>3. QED
    BY <2>1, <2>2 DEF q
<1>5. (v \div 256) * 256 + (v % 256) = v
  OBVIOUS
<1>6. SameLower(g, v) => UpperWritten(g, v) = v
  BY <1>4, <1>5
<1>7. QED
  BY <1>1, <1>2, <1>3, <1>6

\* A byte of a mode is written.
LEMMA ModeStep ==
  ASSUME BackDoorInv, BackDoorReadWrite, next <= 32,
         NEW p, NEW v, p = Modes(program)[next][1], v = Modes(program)[next][2]
  PROVE  /\ UNCHANGED <<serial_xfer, mgmt_gpio_data, mgmt_gpio_data_buf>>
         /\ wbbd_state.byte = 0 => gpio_configure' =
              [gpio_configure EXCEPT ![p] = LowerWritten(gpio_configure[p], v)]
         /\ wbbd_state.byte = 1 => gpio_configure' =
              [gpio_configure EXCEPT ![p] = UpperWritten(gpio_configure[p], v)]
         /\ wbbd_state.byte \in {2, 3} => gpio_configure' = gpio_configure
<1> DEFINE k == wbbd_state.byte
           a == spiaddr(bus.adr + k)
           byte == bus.bytes[k + 1]
<1>1. k \in 0 .. 3
  BY DEF BackDoorInv
<1>2. p \in AllPads /\ v \in Settings
  <2>1. next \in 1 .. 32
    BY DEF BackDoorInv
  <2>2. QED
    BY <2>1, AllLists DEF BackDoorInv, IsList
<1>3. bus = Write(reg_mprj_io(p), Lower(v))
  <2>1. bus = accesses[next] /\ next \in 1 .. 32
    BY DEF BackDoorInv, BackDoorReadWrite
  <2>2. QED
    BY <2>1 DEF BackDoorInv, IsProgram, IsModeWrite
<1>4. bus.we /\ a = spiaddr(reg_mprj_io(p) + k) /\ byte = Lower(v)[k + 1]
  BY <1>3 DEF Write
<1>5. /\ k = 0 => a = 30 + 2 * p /\ byte = v % 256
      /\ k = 1 => a = 29 + 2 * p /\ byte = v \div 256
      /\ k \in {2, 3} => a = 0
  BY <1>1, <1>2, <1>4, ModeAddresses DEF Lower
<1>6. \/ WriteConfigure(a, byte) \/ WriteData(a, byte) \/ WriteTransfer(a, byte)
      \/ a = 0 /\ UNCHANGED registerVars
  BY <1>4 DEF BackDoorReadWrite
<1>7. p \in 0 .. 37
  BY <1>2 DEF AllPads, Chain
<1> HIDE DEF k, a, byte
<1>8. CASE k \in {0, 1}
  <2>1. a \in 29 .. 104 /\ (a - 29) \div 2 = p /\ a # 0 /\ (a % 2 = 1 <=> k = 1)
    BY <1>5, <1>7, <1>8
  <2>2. WriteConfigure(a, byte)
    <3>1. ~(a \in 106 .. 109) /\ a # 19
      BY <2>1
    <3>2. QED
      BY <1>6, <2>1, <3>1, RegisterOf
  <2>3. QED
    BY <1>5, <1>8, <2>1, <2>2, ZenonT(60) DEF WriteConfigure, LowerWritten, UpperWritten, k
<1>9. CASE k \in {2, 3}
  <2>1. UNCHANGED registerVars
    <3>1. ~(a \in 29 .. 104) /\ ~(a \in 106 .. 109) /\ a # 19
      BY <1>5, <1>9
    <3>2. QED
      BY <1>6, <3>1, RegisterOf
  <2>2. QED
    BY <1>9, <2>1 DEF registerVars, k
<1>10. QED
  BY <1>1, <1>8, <1>9

\* A byte of the transfer register or of a word is written, or one is read.
LEMMA OtherStep ==
  ASSUME BackDoorInv, BackDoorReadWrite, next >= 33
  PROVE  /\ gpio_configure' = gpio_configure
         /\ next < 35 => UNCHANGED <<mgmt_gpio_data, mgmt_gpio_data_buf>>
         /\ next >= 35 =>
              /\ bus.adr = reg_mprj_datal /\ IsUpper(bus.bytes)
              /\ wbbd_state.byte < 3 =>
                   /\ mgmt_gpio_data' = mgmt_gpio_data
                   /\ mgmt_gpio_data_buf' =
                        [mgmt_gpio_data_buf EXCEPT ![wbbd_state.byte + 1]
                                                     = bus.bytes[wbbd_state.byte + 1]]
              /\ wbbd_state.byte = 3 =>
                   /\ mgmt_gpio_data' = mgmt_gpio_data_buf \o <<bus.bytes[4]>>
                   /\ UNCHANGED mgmt_gpio_data_buf
<1> DEFINE k == wbbd_state.byte
           a == spiaddr(bus.adr + k)
           byte == bus.bytes[k + 1]
<1>1. k \in 0 .. 3 /\ next \in Nat
  BY DEF BackDoorInv
<1>2. bus = accesses[next] /\ next \in DOMAIN accesses
  BY DEF BackDoorInv, BackDoorReadWrite
<1>3. \/ bus.we /\ (WriteConfigure(a, byte) \/ WriteData(a, byte) \/ WriteTransfer(a, byte))
      \/ bus.we /\ a = 0 /\ UNCHANGED registerVars
      \/ ~bus.we /\ ReadRegister
  BY DEF BackDoorReadWrite
<1>4. CASE next = 33
  <2>1. bus.we /\ bus.adr = reg_mprj_xfer
    <3>1. bus = Write(reg_mprj_xfer, Lower(1))
      BY <1>2, <1>4 DEF BackDoorInv, IsProgram
    <3>2. QED
      BY <3>1 DEF Write
  <2>2. a \in {0, 19}
    BY <1>1, <2>1, OtherAddresses
  <2> HIDE DEF a, byte
  <2>3. WriteTransfer(a, byte) \/ UNCHANGED registerVars
    <3>1. ~(a \in 29 .. 104) /\ ~(a \in 106 .. 109)
      BY <2>2
    <3>2. QED
      BY <1>3, <2>1, <3>1, RegisterOf
  <2>4. QED
    BY <1>4, <2>3 DEF WriteTransfer, registerVars
<1>5. CASE next = 34
  <2>1. ~bus.we
    <3>1. bus = Read(reg_mprj_xfer)
      BY <1>2, <1>5 DEF BackDoorInv, IsProgram
    <3>2. QED
      BY <3>1 DEF Read
  <2>2. QED
    BY <1>3, <1>5, <2>1 DEF ReadRegister
<1>6. CASE next >= 35
  <2>1. IsWordWrite(bus)
    BY <1>2, <1>6 DEF BackDoorInv, IsProgram
  <2>2. bus.we /\ bus.adr = reg_mprj_datal /\ IsUpper(bus.bytes)
    BY <2>1 DEF IsWordWrite
  <2>3. a = 109 - k
    BY <1>1, <2>2, OtherAddresses
  <2>4. WriteData(a, byte)
    <3>1. a # 0 /\ ~(a \in 29 .. 104) /\ a # 19
      BY <1>1, <2>3
    <3> HIDE DEF a, byte
    <3>2. QED
      BY <1>3, <2>2, <3>1, RegisterOf
  <2> HIDE DEF byte, a
  <2>5. CASE k < 3
    <3>1. a # 106 /\ 109 - a + 1 = k + 1
      BY <1>1, <2>3, <2>5
    <3>2. /\ mgmt_gpio_data' = mgmt_gpio_data
          /\ mgmt_gpio_data_buf' = [mgmt_gpio_data_buf EXCEPT ![k + 1] = byte]
          /\ gpio_configure' = gpio_configure
      BY <2>4, <3>1 DEF WriteData
    <3>3. QED
      BY <1>1, <1>6, <2>2, <2>5, <3>2 DEF byte
  <2>6. CASE k = 3
    <3>1. a = 106
      BY <2>3, <2>6
    <3>2. /\ mgmt_gpio_data' = mgmt_gpio_data_buf \o <<byte>>
          /\ UNCHANGED <<mgmt_gpio_data_buf, gpio_configure>>
      BY <2>4, <3>1 DEF WriteData
    <3>3. QED
      BY <1>1, <1>6, <2>2, <2>6, <3>2 DEF byte
  <2>7. QED
    BY <1>1, <2>5, <2>6
<1>7. QED
  BY <1>1, <1>4, <1>5, <1>6

BackDoor == BackDoorIdle \/ BackDoorSetup \/ BackDoorReadWrite \/ BackDoorDone
Loader == LoaderIdle \/ LoaderStart \/ LoaderByte \/ LoaderLoad

\* The access under way is the next of the list, until it is acknowledged.
LEMMA BackDoorKept ==
  ASSUME BackDoorInv, BackDoor \/ Issue
  PROVE  BackDoorInv'
<1> USE DEF BackDoorInv
<1>1. CASE BackDoorIdle
  BY <1>1 DEF BackDoorIdle, mainVars
<1>2. CASE BackDoorSetup
  BY <1>2 DEF BackDoorSetup, mainVars
<1>3. CASE BackDoorReadWrite
  <2>1. /\ UNCHANGED <<program, accesses, next, bus>> /\ wbbd_state.s = "RW"
        /\ wbbd_state' = IF wbbd_state.byte = 3 THEN [s |-> "DONE", byte |-> 0]
                         ELSE [s |-> "SETUP", byte |-> wbbd_state.byte + 1]
    BY <1>3 DEF BackDoorReadWrite, mainVars
  <2>2. wbbd_state' \in [s : {"IDLE", "SETUP", "RW", "DONE"}, byte : 0 .. 3]
        /\ (wbbd_state'.s \in {"IDLE", "DONE"} => wbbd_state'.byte = 0)
    BY <2>1
  <2>3. QED
    BY <2>1, <2>2
<1>4. CASE BackDoorDone
  <2>1. next' \in Nat /\ 1 <= next' /\ bus' = NoAccess /\ wbbd_state' = [s |-> "IDLE", byte |-> 0]
        /\ UNCHANGED <<program, accesses>>
    BY <1>4 DEF BackDoorDone
  <2>2. QED
    BY <2>1
<1>5. CASE Issue
  <2>1. UNCHANGED <<program, accesses, next, wbbd_state>> /\ bus' = accesses[next]
        /\ next <= Len(accesses)
    BY <1>5 DEF Issue, mainVars
  <2>2. next \in DOMAIN accesses
    <3>1. PICK n \in Nat : Len(accesses) = 34 + n /\ DOMAIN accesses = 1 .. 34 + n
      BY DEF IsProgram
    <3>2. next <= 34 + n
      BY <2>1, <3>1
    <3>3. QED
      BY <3>1, <3>2
  <2>3. bus' # NoAccess
    <3>1. CASE next \in 1 .. 32
      <4>1. IsModeWrite(bus', Modes(program)[next])
        BY <2>1, <3>1 DEF IsProgram
      <4>2. bus'.we
        BY <4>1 DEF IsModeWrite, Write
      <4>3. QED
        BY <4>2 DEF NoAccess
    <3>2. CASE next = 33
      BY <2>1, <3>2 DEF IsProgram, NoAccess, Write
    <3>3. CASE next = 34
      BY <2>1, <3>3 DEF IsProgram, NoAccess, Read, reg_mprj_xfer
    <3>4. CASE next >= 35
      <4>1. IsWordWrite(bus')
        BY <2>1, <2>2, <3>4 DEF IsProgram
      <4>2. QED
        BY <4>1 DEF IsWordWrite, NoAccess
    <3>5. QED
      BY <3>1, <3>2, <3>3, <3>4
  <2>4. QED
    BY <2>1, <2>2, <2>3
<1>6. QED
  BY <1>1, <1>2, <1>3, <1>4, <1>5 DEF BackDoor

\* Between two bytes the registers are left alone.
LEMMA RegistersRest ==
  ASSUME BackDoorInv, BackDoorIdle \/ BackDoorSetup \/ BackDoorDone \/ Issue
  PROVE  UNCHANGED <<program, registerVars>>
BY DEF BackDoorIdle, BackDoorSetup, BackDoorDone, Issue, mainVars

\* Every mode gets into its register: the lower byte, then the upper.
LEMMA RegistersKept ==
  ASSUME BackDoorInv, RegisterInv, BackDoor \/ Issue
  PROVE  RegisterInv'
<1>1. IsList(Modes(program)) /\ next \in Nat /\ 1 <= next
  BY AllLists DEF BackDoorInv
<1>2. CASE BackDoorIdle \/ BackDoorSetup \/ Issue
  <2>1. UNCHANGED <<program, gpio_configure, serial_xfer, next>>
    BY <1>2 DEF BackDoorIdle, BackDoorSetup, Issue, mainVars, registerVars
  <2>2. BytesDone' = BytesDone
    BY <1>2 DEF BackDoorIdle, BackDoorSetup, Issue, BytesDone, BackDoorInv
  <2>3. QED
    BY <2>1, <2>2 DEF RegisterInv, Written, Listed
<1>3. CASE BackDoorDone
  <2>1. /\ UNCHANGED <<program, gpio_configure, serial_xfer>> /\ BytesDone = 4 /\ BytesDone' = 0
        /\ next' = next + 1 \/ (next' = next /\ ~bus.we)
    BY <1>3 DEF BackDoorDone, registerVars, BytesDone
  <2>2. next <= 32 => next' = next + 1
    <3>1. ASSUME next <= 32
          PROVE  bus.we
      <4>1. bus = accesses[next] /\ next \in 1 .. 32
        BY <1>1, <1>3, <3>1 DEF BackDoorInv, BackDoorDone
      <4>2. IsModeWrite(bus, Modes(program)[next])
        BY <4>1 DEF BackDoorInv, IsProgram
      <4>3. QED
        BY <4>2 DEF IsModeWrite, Write
    <3>2. QED
      BY <2>1, <3>1
  <2>3. \A k \in 1 .. 32 : Written(k)' => Written(k)
    BY <1>1, <2>1, <2>2 DEF Written
  <2>4. next' \in Nat /\ next' >= next
    BY <1>1, <2>1
  <2>5. QED
    BY <1>1, <2>1, <2>3, <2>4 DEF RegisterInv, Listed
<1>4. CASE BackDoorReadWrite /\ next >= 33
  <2>1. UNCHANGED <<program, gpio_configure, next>>
    BY <1>4, OtherStep DEF BackDoorReadWrite, mainVars
  <2>2. \A k \in 1 .. 32 : Written(k)' => Written(k)
    BY <1>1, <1>4, <2>1 DEF Written
  <2>3. QED
    BY <1>1, <1>4, <2>1, <2>2 DEF RegisterInv, Listed
<1>5. CASE BackDoorReadWrite /\ next <= 32
  <2> DEFINE p == Modes(program)[next][1]
             v == Modes(program)[next][2]
  <2>1. /\ UNCHANGED <<program, next, serial_xfer>>
        /\ wbbd_state.byte = 0 => gpio_configure' =
             [gpio_configure EXCEPT ![p] = LowerWritten(gpio_configure[p], v)]
        /\ wbbd_state.byte = 1 => gpio_configure' =
             [gpio_configure EXCEPT ![p] = UpperWritten(gpio_configure[p], v)]
        /\ wbbd_state.byte \in {2, 3} => gpio_configure' = gpio_configure
    BY <1>5, ModeStep DEF BackDoorReadWrite, mainVars
  <2>2. next \in 1 .. 32
    BY <1>1, <1>5
  <2>3. p \in AllPads /\ v \in Settings /\ Listed(p)
        /\ \A k \in 1 .. 32 : k # next => Modes(program)[k][1] # p
    BY <1>1, <2>2 DEF IsList, Listed
  <2>4. /\ wbbd_state.byte \in 0 .. 3 /\ BytesDone = wbbd_state.byte
        /\ BytesDone' = wbbd_state.byte + 1
    BY <1>5 DEF BackDoorReadWrite, BackDoorInv, BytesDone
  <2>5. gpio_configure \in [AllPads -> Settings] /\ gpio_configure[p] \in Settings
    BY <2>3 DEF RegisterInv
  <2> HIDE DEF p, v
  <2>6. /\ gpio_configure' \in [AllPads -> Settings]
        /\ \A pad \in AllPads : pad # p => gpio_configure'[pad] = gpio_configure[pad]
    BY <2>1, <2>3, <2>4, <2>5, BytesWritten
  <2>7. BytesDone' = 1 => SameLower(gpio_configure'[p], v)
    BY <2>1, <2>3, <2>4, <2>5, BytesWritten
  <2>8. BytesDone' >= 2 => gpio_configure'[p] = v
    <3>1. CASE wbbd_state.byte = 1
      <4>1. SameLower(gpio_configure[p], v)
        BY <1>5, <2>4, <3>1 DEF RegisterInv, p, v
      <4>2. QED
        BY <2>1, <2>3, <2>5, <3>1, <4>1, BytesWritten
    <3>2. CASE wbbd_state.byte \in {2, 3}
      <4>1. Written(next)
        BY <2>4, <3>2 DEF Written
      <4>2. gpio_configure[p] = v
        BY <2>2, <4>1 DEF RegisterInv, p, v
      <4>3. QED
        BY <2>1, <3>2, <4>2
    <3>3. QED
      BY <2>4, <3>1, <3>2
  <2>9. ASSUME NEW k \in 1 .. 32, Written(k)'
        PROVE  gpio_configure'[Modes(program)[k][1]] = Modes(program)[k][2]
    <3>1. CASE k = next
      BY <1>1, <2>1, <2>8, <2>9, <3>1 DEF Written, p, v
    <3>2. CASE k # next
      <4>1. Written(k) /\ Modes(program)[k][1] \in AllPads /\ Modes(program)[k][1] # p
        BY <1>1, <2>1, <2>3, <2>9, <3>2 DEF Written, IsList
      <4>2. QED
        BY <2>6, <4>1 DEF RegisterInv
    <3>3. QED
      BY <3>1, <3>2
  <2>10. \A pad \in AllPads : ~Listed(pad) => gpio_configure'[pad] = ResetMode(pad)
    BY <2>3, <2>6 DEF RegisterInv
  <2>11. QED
    BY <2>1, <2>6, <2>7, <2>9, <2>10 DEF RegisterInv, Listed, p, v
<1>6. QED
  BY <1>1, <1>2, <1>3, <1>4, <1>5 DEF BackDoor

\* The lower bytes of a word are in the buffer before its last byte comes.
LEMMA DataKept ==
  ASSUME BackDoorInv, DataInv, BackDoor \/ Issue
  PROVE  DataInv'
<1>1. next \in Nat /\ wbbd_state.byte \in 0 .. 3 /\ wbbd_state.s \in {"IDLE", "SETUP", "RW", "DONE"}
      /\ (wbbd_state.s \in {"IDLE", "DONE"} => wbbd_state.byte = 0)
  BY DEF BackDoorInv
<1>2. PICK x, y, z : mgmt_gpio_data_buf = <<x, y, z>>
  BY DEF DataInv
<1>3. CASE BackDoorIdle \/ BackDoorSetup
  <2>1. UNCHANGED <<next, bus, mgmt_gpio_data_buf>>
    BY <1>3 DEF BackDoorIdle, BackDoorSetup, mainVars, registerVars
  <2>2. BytesDone' = BytesDone
    BY <1>3 DEF BackDoorIdle, BackDoorSetup, BytesDone, BackDoorInv
  <2>3. QED
    BY <2>1, <2>2 DEF DataInv
<1>4. CASE BackDoorDone \/ Issue
  <2>1. UNCHANGED mgmt_gpio_data_buf
    BY <1>4 DEF BackDoorDone, Issue, registerVars
  <2>2. BytesDone' = 0
    BY <1>4 DEF BackDoorDone, Issue, BytesDone, BackDoorInv
  <2>3. QED
    BY <2>1, <2>2 DEF DataInv
<1>5. CASE BackDoorReadWrite
  <2> DEFINE k == wbbd_state.byte
  <2>1. UNCHANGED <<next, bus>> /\ BytesDone = k /\ BytesDone' = k + 1
    BY <1>1, <1>5 DEF BackDoorReadWrite, mainVars, BytesDone
  <2>2. CASE next < 35
    <3>1. mgmt_gpio_data_buf' = mgmt_gpio_data_buf
      <4>1. CASE next <= 32
        BY <1>5, <4>1, ModeStep
      <4>2. CASE next >= 33
        BY <1>5, <2>2, <4>2, OtherStep
      <4>3. QED
        BY <1>1, <4>1, <4>2
    <3>2. QED
      BY <1>1, <2>1, <2>2, <3>1 DEF DataInv
  <2>3. CASE next >= 35 /\ k < 3
    <3>1. mgmt_gpio_data_buf' = [mgmt_gpio_data_buf EXCEPT ![k + 1] = bus.bytes[k + 1]]
      BY <1>1, <1>5, <2>3, OtherStep
    <3>2. \A j \in 1 .. 3 : j <= k => mgmt_gpio_data_buf[j] = bus.bytes[j]
      BY <2>1, <2>3 DEF DataInv
    <3> DEFINE byte == bus.bytes[k + 1]
    <3>3. \/ k = 0 /\ mgmt_gpio_data_buf' = <<byte, y, z>>
          \/ k = 1 /\ mgmt_gpio_data_buf' = <<x, byte, z>>
          \/ k = 2 /\ mgmt_gpio_data_buf' = <<x, y, byte>>
      BY <1>1, <1>2, <2>3, <3>1
    <3>4. \E x1, y1, z1 : mgmt_gpio_data_buf' = <<x1, y1, z1>>
      BY <3>3
    <3>5. \A j \in 1 .. 3 : j <= k + 1 => mgmt_gpio_data_buf'[j] = bus.bytes[j]
      BY <1>1, <1>2, <3>2, <3>3
    <3>6. QED
      BY <2>1, <3>4, <3>5 DEF DataInv
  <2>4. CASE next >= 35 /\ k = 3
    <3>1. mgmt_gpio_data_buf' = mgmt_gpio_data_buf
      BY <1>1, <1>5, <2>4, OtherStep
    <3>2. QED
      BY <2>1, <2>4, <3>1 DEF DataInv
  <2>5. next < 35 \/ (next >= 35 /\ k < 3) \/ (next >= 35 /\ k = 3)
    BY <1>1
  <2> HIDE DEF k
  <2>6. QED
    BY <2>2, <2>3, <2>4, <2>5
<1>6. QED
  BY <1>3, <1>4, <1>5 DEF BackDoor

\* The bytes of a word, put together again.
LEMMA FourBytes ==
  ASSUME NEW b1, NEW b2, NEW b3, NEW b4
  PROVE  <<b1, b2, b3>> \o <<b4>> = <<b1, b2, b3, b4>>
<1> DEFINE S == {b1, b2, b3, b4}
           s == <<b1, b2, b3>>
           t == <<b4>>
           r == <<b1, b2, b3, b4>>
<1>1. OfLength(S, s, 3) /\ OfLength(S, t, 1) /\ OfLength(S, r, 4)
  BY DEF OfLength
<1>2. s[1] = b1 /\ s[2] = b2 /\ s[3] = b3 /\ t[1] = b4
  OBVIOUS
<1>3. r[1] = b1 /\ r[2] = b2 /\ r[3] = b3 /\ r[4] = b4
  OBVIOUS
<1> HIDE DEF s, t, r, S
<1> DEFINE u == s \o t
<1>4. OfLength(S, u, 4) /\ Joins(u, s, t, 3, 1)
  BY <1>1, Appended
<1> HIDE DEF u
<1>5. u[1] = b1 /\ u[2] = b2 /\ u[3] = b3 /\ u[4] = b4
  BY <1>2, <1>4 DEF Joins
<1>6. \A i \in 1 .. 4 : u[i] = r[i]
  BY <1>3, <1>5
<1>7. u = r
  BY <1>1, <1>4, <1>6 DEF OfLength
<1>8. QED
  BY <1>7 DEF u, r, s, t

\* The pins change when the last byte of a word is written, to that word.
LEMMA PinsStep ==
  ASSUME BackDoorInv, DataInv, BackDoor \/ Issue, mgmt_gpio_data' # mgmt_gpio_data
  PROVE  bus.adr = reg_mprj_datal /\ mgmt_gpio_data' = bus.bytes
<1>1. BackDoorReadWrite
  BY RegistersRest DEF BackDoor, registerVars
<1>2. next >= 35 /\ next \in Nat
  BY <1>1, ModeStep, OtherStep DEF BackDoorInv
<1>3. wbbd_state.byte = 3
  BY <1>1, <1>2, OtherStep DEF BackDoorInv
<1>4. /\ bus.adr = reg_mprj_datal /\ IsUpper(bus.bytes)
      /\ mgmt_gpio_data' = mgmt_gpio_data_buf \o <<bus.bytes[4]>>
  BY <1>1, <1>2, <1>3, OtherStep
<1>5. PICK x, y, z : mgmt_gpio_data_buf = <<x, y, z>>
  BY DEF DataInv
<1>6. BytesDone = 3
  BY <1>1, <1>3 DEF BackDoorReadWrite, BytesDone
<1>7. \A j \in 1 .. 3 : mgmt_gpio_data_buf[j] = bus.bytes[j]
  BY <1>2, <1>6 DEF DataInv
<1>8. x = bus.bytes[1] /\ y = bus.bytes[2] /\ z = bus.bytes[3]
  BY <1>5, <1>7
<1>9. PICK b1, b2, b3, b4 : bus.bytes = <<b1, b2, b3, b4>>
  BY <1>4 DEF IsUpper, Upper
<1>10. mgmt_gpio_data' = <<b1, b2, b3, b4>>
  <2>1. x = b1 /\ y = b2 /\ z = b3 /\ bus.bytes[4] = b4
    BY <1>8, <1>9
  <2>2. mgmt_gpio_data' = <<b1, b2, b3>> \o <<b4>>
    BY <1>4, <1>5, <2>1
  <2>3. <<b1, b2, b3>> \o <<b4>> = <<b1, b2, b3, b4>>
    BY FourBytes
  <2>4. QED
    BY <2>2, <2>3
<1>11. QED
  BY <1>4, <1>9, <1>10

-----------------------------------------------------------------------------
(* Words that shift.                                                        *)

\* A word that is replaced by the next, bit by bit from the top: A, of which b
\* bits have gone out at the top and as many of B have come in at the bottom.
Shifted(A, B, b) == (A * 2 ^ b + B \div 2 ^ (13 - b)) % 8192
BitOf(B, b) == (B \div 2 ^ (12 - b)) % 2

\* The weights of the bits that have come in and of the next that goes out.
Weights(m, k) ==
  \/ m = 1 /\ k = 4096
  \/ m = 2 /\ k = 2048
  \/ m = 4 /\ k = 1024
  \/ m = 8 /\ k = 512
  \/ m = 16 /\ k = 256
  \/ m = 32 /\ k = 128
  \/ m = 64 /\ k = 64
  \/ m = 128 /\ k = 32
  \/ m = 256 /\ k = 16
  \/ m = 512 /\ k = 8
  \/ m = 1024 /\ k = 4
  \/ m = 2048 /\ k = 2
  \/ m = 4096 /\ k = 1

\* As the word shifts, one weight is doubled and the other halved.
LEMMA Powers ==
  ASSUME NEW b \in 0 .. 12
  PROVE  /\ Weights(2 ^ b, 2 ^ (12 - b))
         /\ 2 ^ (b + 1) = 2 * 2 ^ b
         /\ 2 ^ (13 - b) = 2 * 2 ^ (12 - b)
         /\ 2 ^ (13 - (b + 1)) = 2 ^ (12 - b)
<1> USE DEF Weights
<1>1. CASE b = 0
  BY <1>1
<1>2. CASE b = 1
  BY <1>2
<1>3. CASE b = 2
  BY <1>3
<1>4. CASE b = 3
  BY <1>4
<1>5. CASE b = 4
  BY <1>5
<1>6. CASE b = 5
  BY <1>6
<1>7. CASE b = 6
  BY <1>7
<1>8. CASE b = 7
  BY <1>8
<1>9. CASE b = 8
  BY <1>9
<1>10. CASE b = 9
  BY <1>10
<1>11. CASE b = 10
  BY <1>11
<1>12. CASE b = 11
  BY <1>12
<1>13. CASE b = 12
  BY <1>13
<1>14. QED
  BY <1>1, <1>2, <1>3, <1>4, <1>5, <1>6, <1>7, <1>8, <1>9, <1>10, <1>11, <1>12, <1>13

\* A word is the bits that have gone out, the next bit, and the bits that stay.
LEMMA Divided ==
  ASSUME NEW m, NEW k, Weights(m, k), NEW A \in Settings
  PROVE  \E q \in 0 .. m - 1, t \in 0 .. 1, y \in 0 .. k - 1 : A = 2 * k * q + k * t + y
<1> USE DEF Weights
<1> DEFINE d == A \div k
           y == A % k
<1>1. A \in Int /\ 0 <= A /\ A <= 8191 /\ k \in Nat /\ m \in Nat /\ k > 0 /\ m > 0
  BY DEF Settings
<1>2. A = k * d + y
  BY <1>1
<1>3. d \in Int /\ 0 <= d
  BY <1>1
<1>4. d <= 2 * m - 1
  BY <1>1
<1>5. y \in 0 .. k - 1
  BY <1>1
<1> HIDE DEF d, y
<1> DEFINE q == d \div 2
           t == d % 2
<1>6. d = 2 * q + t
  BY <1>3
<1>7. q \in Int /\ 0 <= q /\ q <= m - 1
  BY <1>1, <1>3, <1>4
<1>8. t \in 0 .. 1
  BY <1>3
<1> HIDE DEF q, t
<1>9. A = 2 * k * q + k * t + y
  BY <1>1, <1>2, <1>5, <1>6, <1>7, <1>8
<1>10. QED
  BY <1>1, <1>5, <1>7, <1>8, <1>9

\* A shift, by the weights of its bits.
LEMMA OneBit ==
  ASSUME NEW m, NEW k, Weights(m, k), NEW A \in Settings, NEW B \in Settings
  PROVE  LET v == (A * m + B \div (2 * k)) % 8192
             bit == (B \div k) % 2
         IN /\ v \div 4096 = (A \div k) % 2
            /\ (2 * v + bit) % 8192 = (A * (2 * m) + B \div k) % 8192
<1>1. m \in Nat /\ k \in Nat
  BY DEF Weights
<1>2. PICK q \in 0 .. m - 1, t \in 0 .. 1, y \in 0 .. k - 1 : A = 2 * k * q + k * t + y
  BY Divided
<1>3. PICK u \in 0 .. m - 1, s \in 0 .. 1, z \in 0 .. k - 1 : B = 2 * k * u + k * s + z
  BY Divided
<1> USE DEF Weights
<1>4. B \div (2 * k) = u
  BY <1>1, <1>3
<1>5. B \div k = 2 * u + s
  BY <1>1, <1>3
<1>6. (2 * u + s) % 2 = s
  BY <1>1
<1>7. (A * m + u) % 8192 = 4096 * t + m * y + u
  BY <1>1, <1>2
<1>8. (4096 * t + m * y + u) \div 4096 = t
  BY <1>1, <1>2
<1>9. (2 * (4096 * t + m * y + u) + s) % 8192 = 2 * m * y + 2 * u + s
  BY <1>1, <1>2
<1>10. (A * (2 * m) + (2 * u + s)) % 8192 = 2 * m * y + 2 * u + s
  BY <1>1, <1>2
<1>11. (A \div k) % 2 = t
  BY <1>1, <1>2
<1> HIDE DEF Weights
<1>12. QED
  BY <1>4, <1>5, <1>6, <1>7, <1>8, <1>9, <1>10, <1>11

\* One bit goes out, and one comes in.
LEMMA ShiftOne ==
  ASSUME NEW A \in Settings, NEW B \in Settings, NEW b \in 0 .. 12
  PROVE  /\ Top(Shifted(A, B, b)) = BitOf(A, b)
         /\ ShiftIn(Shifted(A, B, b), BitOf(B, b)) = Shifted(A, B, b + 1)
<1> DEFINE m == 2 ^ b
           k == 2 ^ (12 - b)
<1>1. /\ Weights(m, k) /\ 2 ^ (b + 1) = 2 * m /\ 2 ^ (13 - b) = 2 * k
      /\ 2 ^ (13 - (b + 1)) = k
  BY Powers
<1>2. 2 ^ (Bits - 1) = 4096 /\ 2 ^ Bits = 8192
  BY DEF Bits
<1> HIDE DEF m, k
<1>3. LET v == (A * m + B \div (2 * k)) % 8192
          bit == (B \div k) % 2
      IN /\ v \div 4096 = (A \div k) % 2
         /\ (2 * v + bit) % 8192 = (A * (2 * m) + B \div k) % 8192
  BY <1>1, OneBit
<1>4. Shifted(A, B, b) = (A * m + B \div (2 * k)) % 8192
  BY <1>1 DEF Shifted, m
<1>5. BitOf(A, b) = (A \div k) % 2 /\ BitOf(B, b) = (B \div k) % 2
  BY <1>1 DEF BitOf, k
<1>6. Shifted(A, B, b + 1) = (A * (2 * m) + B \div k) % 8192
  BY <1>1 DEF Shifted
<1>7. QED
  BY <1>2, <1>3, <1>4, <1>5, <1>6 DEF Top, ShiftIn

\* The first bit and the last.
LEMMA ShiftAll ==
  ASSUME NEW A \in Settings, NEW B \in Settings
  PROVE  /\ Shifted(A, B, 0) = A /\ Shifted(A, B, 13) = B
         /\ \A b \in 0 .. 12 : BitOf(0, b) = 0
<1>1. Shifted(A, B, 0) = A
  <2>1. B \div 8192 = 0
    <3>1. B \div 8192 \in Int
      BY DEF Settings
    <3>2. B \div 8192 <= 0
      BY DEF Settings
    <3>3. B \div 8192 >= 0
      BY DEF Settings
    <3>4. QED
      BY <3>1, <3>2, <3>3
  <2>2. A % 8192 = A
    BY SMTT(30) DEF Settings
  <2>3. Shifted(A, B, 0) = (A * 1 + B \div 8192) % 8192
    BY DEF Shifted
  <2>4. QED
    BY <2>1, <2>2, <2>3 DEF Settings
<1>2. Shifted(A, B, 13) = B
  <2>1. Shifted(A, B, 13) = (A * 8192 + B \div 1) % 8192
    BY DEF Shifted
  <2>2. B \div 1 = B
    BY DEF Settings
  <2>3. (A * 8192 + B) % 8192 = B
    BY SMTT(30) DEF Settings
  <2>4. QED
    BY <2>1, <2>2, <2>3
<1>3. ASSUME NEW b \in 0 .. 12
      PROVE  BitOf(0, b) = 0
  <2> DEFINE k == 2 ^ (12 - b)
  <2>1. Weights(2 ^ b, k)
    BY Powers
  <2> HIDE DEF k
  <2>2. 0 \div k = 0
    BY <2>1 DEF Weights
  <2>3. 0 % 2 = 0
    OBVIOUS
  <2>4. BitOf(0, b) = (0 \div k) % 2
    BY DEF BitOf, k
  <2>5. QED
    BY ONLY <2>2, <2>3, <2>4
<1>4. QED
  BY <1>1, <1>2, <1>3

\* A word that is being replaced is a word.
LEMMA ShiftedType ==
  ASSUME NEW A \in Settings, NEW B \in Settings, NEW b \in 0 .. 12
  PROVE  Shifted(A, B, b + 1) \in Settings /\ Shifted(A, B, b) \in Settings
<1> DEFINE m == 2 ^ b
           k == 2 ^ (12 - b)
<1>1. /\ Weights(m, k) /\ 2 ^ (b + 1) = 2 * m /\ 2 ^ (13 - b) = 2 * k
      /\ 2 ^ (13 - (b + 1)) = k
  BY Powers
<1> HIDE DEF m, k
<1>2. A * m + B \div (2 * k) \in Int /\ A * (2 * m) + B \div k \in Int
  BY <1>1 DEF Weights, Settings
<1>3. \A i \in Int : i % 8192 \in Settings
  BY DEF Settings
<1>4. Shifted(A, B, b) = (A * m + B \div (2 * k)) % 8192
  BY <1>1 DEF Shifted, m
<1>5. Shifted(A, B, b + 1) = (A * (2 * m) + B \div k) % 8192
  BY <1>1 DEF Shifted
<1>6. QED
  BY ONLY <1>2, <1>3, <1>4, <1>5

-----------------------------------------------------------------------------
(* The words on their way.                                                  *)

\* While word c of a chain is sent, each pad it has reached gives up the word it
\* holds, the one before, for the word Source names, which its neighbour holds.
Source(p, c) == IF p < Chain THEN p + (18 - c) ELSE p - (18 - c)
Reached(p, c) == IF p < Chain THEN p <= c ELSE 37 - p <= c

Holds(W, r, p, c, b) ==
  Reached(p, c) => \E U \in Settings :
                     /\ r[p] = Shifted(U, W[Source(p, c)], b)
                     /\ Reached(p, c - 1) => U = W[Source(p, c - 1)]
Contents(W, r, c, b) == \A p \in AllPads : Holds(W, r, p, c, b)

\* A pad that is reached has a neighbour that is reached, and was so one word
\* earlier; or it is the one that the loader feeds.
LEMMA Sources ==
  ASSUME NEW p \in AllPads, NEW c \in 0 .. 18, Reached(p, c)
  PROVE  /\ Source(p, c) \in AllPads
         /\ Feeder(p) \in AllPads =>
              /\ Reached(Feeder(p), c) /\ Reached(Feeder(p), c - 1)
              /\ Source(Feeder(p), c - 1) = Source(p, c)
         /\ Feeder(p) \notin AllPads =>
              \/ p < Chain /\ Source(p, c) = 18 - c
              \/ ~(p < Chain) /\ Source(p, c) = 19 + c
BY DEF Source, Reached, Feeder, AllPads, Chain

\* The words the loader sends to the two chains.
LEMMA Fed ==
  ASSUME NEW c \in 0 .. 18
  PROVE  18 - c \in AllPads /\ 19 + c \in AllPads /\ 0 \in Settings
BY DEF AllPads, Chain, Settings

\* A bit goes from each pad to the next.
LEMMA ContentsStep ==
  ASSUME NEW W \in [AllPads -> Settings], NEW r \in [AllPads -> Settings], NEW t, NEW in,
         NEW c \in 0 .. 18, NEW b \in 0 .. 12, Contents(W, r, c, b),
         \A p \in AllPads : t[p] = ShiftIn(r[p], in[p]),
         \A p \in AllPads : Feeder(p) \in AllPads => in[p] = Top(r[Feeder(p)]),
         \A p \in AllPads : Feeder(p) \notin AllPads /\ Reached(p, c)
                              => in[p] = BitOf(W[Source(p, c)], b)
  PROVE  Contents(W, t, c, b + 1)
<1> SUFFICES ASSUME NEW p \in AllPads, Reached(p, c)
             PROVE  Holds(W, t, p, c, b + 1)
  BY DEF Contents, Holds
<1> DEFINE B == W[Source(p, c)]
<1>1. B \in Settings
  BY Sources
<1>2. PICK U \in Settings : r[p] = Shifted(U, B, b)
                            /\ (Reached(p, c - 1) => U = W[Source(p, c - 1)])
  BY DEF Contents, Holds
<1>3. in[p] = BitOf(B, b)
  <2>1. CASE Feeder(p) \in AllPads
    <3> DEFINE f == Feeder(p)
    <3>1. f \in AllPads /\ Reached(f, c) /\ Reached(f, c - 1) /\ Source(f, c - 1) = Source(p, c)
      BY <2>1, Sources
    <3> HIDE DEF f
    <3>2. PICK V \in Settings : r[f] = Shifted(V, W[Source(f, c)], b)
                                /\ (Reached(f, c - 1) => V = W[Source(f, c - 1)])
      BY <3>1 DEF Contents, Holds
    <3>3. V = B /\ W[Source(f, c)] \in Settings
      BY <3>1, <3>2, Sources
    <3> HIDE DEF B
    <3>4. Top(r[f]) = BitOf(B, b)
      BY <1>1, <3>2, <3>3, ShiftOne
    <3>5. QED
      BY <2>1, <3>4 DEF f
  <2>2. CASE Feeder(p) \notin AllPads
    BY <2>2
  <2>3. QED
    BY <2>1, <2>2
<1> HIDE DEF B
<1>4. t[p] = Shifted(U, B, b + 1)
  BY <1>1, <1>2, <1>3, ShiftOne
<1>5. QED
  BY <1>2, <1>4 DEF Holds, B

\* After its last bit a word is where it was to go, and the next may follow.
LEMMA NextWord ==
  ASSUME NEW W \in [AllPads -> Settings], NEW r \in [AllPads -> Settings],
         NEW c \in 0 .. 18, Contents(W, r, c, 13)
  PROVE  /\ c < 18 => Contents(W, r, c + 1, 0)
         /\ c = 18 => r = W
<1>1. ASSUME NEW p \in AllPads, Reached(p, c)
      PROVE  r[p] = W[Source(p, c)]
  <2>1. PICK U \in Settings : r[p] = Shifted(U, W[Source(p, c)], 13)
    BY <1>1 DEF Contents, Holds
  <2>2. W[Source(p, c)] \in Settings
    BY <1>1, Sources
  <2>3. QED
    BY <2>1, <2>2, ShiftAll
<1>2. ASSUME c < 18
      PROVE  Contents(W, r, c + 1, 0)
  <2> SUFFICES ASSUME NEW p \in AllPads, Reached(p, c + 1)
               PROVE  Holds(W, r, p, c + 1, 0)
    BY DEF Contents, Holds
  <2>1. c + 1 \in 0 .. 18 /\ (c + 1) - 1 = c
    BY <1>2
  <2>2. W[Source(p, c + 1)] \in Settings
    BY <2>1, Sources
  <2>3. r[p] \in Settings /\ r[p] = Shifted(r[p], W[Source(p, c + 1)], 0)
    BY <2>2, ShiftAll
  <2>4. QED
    BY <1>1, <2>1, <2>3 DEF Holds
<1>3. ASSUME c = 18
      PROVE  r = W
  <2>1. \A p \in AllPads : Reached(p, 18) /\ Source(p, 18) = p
    BY DEF Reached, Source, AllPads, Chain
  <2>2. \A p \in AllPads : r[p] = W[p]
    BY <1>1, <1>3, <2>1
  <2>3. QED
    BY <2>2
<1>4. QED
  BY <1>2, <1>3

\* The first words may follow whatever the pads hold.
LEMMA FirstWord ==
  ASSUME NEW W \in [AllPads -> Settings], NEW r \in [AllPads -> Settings]
  PROVE  Contents(W, r, 0, 0)
<1> SUFFICES ASSUME NEW p \in AllPads, Reached(p, 0)
             PROVE  Holds(W, r, p, 0, 0)
  BY DEF Contents, Holds
<1>1. W[Source(p, 0)] \in Settings
  BY Sources
<1>2. r[p] \in Settings /\ r[p] = Shifted(r[p], W[Source(p, 0)], 0)
  BY <1>1, ShiftAll
<1>3. ~Reached(p, 0 - 1)
  BY DEF Reached, AllPads, Chain
<1>4. QED
  BY <1>2, <1>3 DEF Holds

-----------------------------------------------------------------------------
(* The loader.                                                              *)

Sent(W, c, b) ==
  staging[1] = Shifted(W[18 - c], 0, b) /\ staging[2] = Shifted(W[19 + c], 0, b)

\* Word c is next; b bits of it are in the pads.
StartInv(W, c) == pad_count = <<18 - c, 19 + c>> /\ Contents(W, shift_register, c, 0)
ByteInv(W, c, b) ==
  /\ pad_count = <<17 - c, 20 + c>> /\ xfer_count = b
  /\ Contents(W, shift_register, c, b)
  /\ IF serial_clock THEN b >= 1 /\ Sent(W, c, b - 1) ELSE Sent(W, c, b)

TransferInv(W) ==
  /\ xfer_state = "START" => \E c \in 0 .. 18 : StartInv(W, c)
  /\ xfer_state = "XBYTE" => \E c \in 0 .. 18, b \in 0 .. 12 : ByteInv(W, c, b)
  /\ xfer_state = "LOAD" => shift_register = W

HeldOut == \A p \in AllPads : serial_data_out[p] = Top(shift_register[p])
Blocks ==
  /\ shift_register \in [AllPads -> Settings]
  /\ serial_clock \in BOOLEAN
  /\ ~serial_clock => HeldOut

LoaderInv ==
  /\ xfer_state \in {"IDLE", "START", "XBYTE", "LOAD"}
  /\ xfer_state # "IDLE" => next >= 33
  /\ Blocks
  /\ TransferInv(Wanted)
  /\ ConfiguredTogether

\* When a transfer is under way every mode is in its register.
LEMMA Configured ==
  ASSUME BackDoorInv, RegisterInv, next >= 33
  PROVE  gpio_configure = Wanted
<1> DEFINE m == Modes(program)
<1>1. \A k \in 1 .. 32 : gpio_configure[m[k][1]] = m[k][2]
  <2>1. \A k \in 1 .. 32 : Written(k)
    BY DEF Written, BackDoorInv
  <2>2. QED
    BY <2>1 DEF RegisterInv
<1>2. /\ Wanted \in [AllPads -> Settings]
      /\ \A k \in 1 .. 32 : Wanted[m[k][1]] = m[k][2]
      /\ \A pad \in AllPads : (\A k \in 1 .. 32 : m[k][1] # pad) => Wanted[pad] = ResetMode(pad)
  BY WantedModes DEF BackDoorInv
<1>3. \A pad \in AllPads : ~Listed(pad) => gpio_configure[pad] = ResetMode(pad)
  BY SMTT(30) DEF RegisterInv
<1>4. \A pad \in AllPads : Listed(pad) <=> \E k \in 1 .. 32 : m[k][1] = pad
  BY DEF Listed
<1> HIDE DEF m
<1>5. \A pad \in AllPads : gpio_configure[pad] = Wanted[pad]
  BY <1>1, <1>2, <1>3, <1>4, SMTT(30)
<1>6. QED
  BY <1>2, <1>5 DEF RegisterInv

\* What is wanted depends on the program only.
LEMMA WantedStays ==
  ASSUME program' = program
  PROVE  Wanted' = Wanted
BY DEF Wanted

\* A falling edge.
LEMMA FallKept ==
  ASSUME Blocks, Fall
  PROVE  Blocks' /\ UNCHANGED shift_register
BY DEF Blocks, Fall, HeldOut

\* What is shifted is still a word.
LEMMA ShiftInType ==
  ASSUME NEW v \in Settings, NEW bit \in Int
  PROVE  ShiftIn(v, bit) \in Settings
<1>1. 2 * v + bit \in Int
  BY DEF Settings
<1>2. \A i \in Int : i % 8192 \in Settings
  BY DEF Settings
<1>3. 2 ^ Bits = 8192
  BY DEF Bits
<1>4. QED
  BY <1>1, <1>2, <1>3 DEF ShiftIn

\* A bit is a number.
LEMMA TopType ==
  ASSUME NEW v \in Settings
  PROVE  Top(v) \in Int
<1>1. 2 ^ (Bits - 1) = 4096
  BY DEF Bits
<1>2. v \div 4096 \in Int
  BY DEF Settings
<1>3. QED
  BY <1>1, <1>2 DEF Top

\* A rising edge: every pad takes a bit.
LEMMA RiseStep ==
  ASSUME Blocks, Rise, ~serial_clock, NEW W \in [AllPads -> Settings],
         NEW c \in 0 .. 18, NEW b \in 0 .. 12,
         Contents(W, shift_register, c, b), Sent(W, c, b)
  PROVE  Contents(W, shift_register', c, b + 1) /\ Blocks'
<1> DEFINE in == [p \in AllPads |-> SerialIn(p)]
<1>1. /\ shift_register \in [AllPads -> Settings] /\ HeldOut
      /\ shift_register' = [p \in AllPads |-> ShiftIn(shift_register[p], SerialIn(p))]
      /\ serial_clock'
  BY DEF Blocks, Rise
<1>2. \A p \in AllPads : Feeder(p) \in AllPads => in[p] = Top(shift_register[Feeder(p)])
  BY <1>1 DEF HeldOut, SerialIn
<1>3. \A p \in AllPads : shift_register'[p] = ShiftIn(shift_register[p], in[p])
  BY <1>1
<1>4. 18 - c \in AllPads /\ 19 + c \in AllPads
  BY Fed
<1>5. 0 \in Settings
  BY Fed
<1>6. Top(staging[1]) = BitOf(W[18 - c], b) /\ Top(staging[2]) = BitOf(W[19 + c], b)
  <2> DEFINE x == W[18 - c]
             y == W[19 + c]
  <2>1. x \in Settings /\ y \in Settings
    BY <1>4
  <2>2. staging[1] = Shifted(x, 0, b) /\ staging[2] = Shifted(y, 0, b)
    BY DEF Sent
  <2> HIDE DEF x, y
  <2>3. Top(staging[1]) = BitOf(x, b) /\ Top(staging[2]) = BitOf(y, b)
    BY <1>5, <2>1, <2>2, ShiftOne
  <2>4. QED
    BY <2>3 DEF x, y
<1>7. ASSUME NEW p \in AllPads, Feeder(p) \notin AllPads
      PROVE  in[p] = Top(staging[IF p < Chain THEN 1 ELSE 2])
  BY <1>7 DEF SerialIn
<1>8. ASSUME NEW p \in AllPads, Feeder(p) \notin AllPads, Reached(p, c)
      PROVE  in[p] = BitOf(W[Source(p, c)], b)
  <2>1. CASE p < Chain /\ Source(p, c) = 18 - c
    BY <1>6, <1>7, <1>8, <2>1
  <2>2. CASE ~(p < Chain) /\ Source(p, c) = 19 + c
    BY <1>6, <1>7, <1>8, <2>2
  <2>3. QED
    BY <1>8, <2>1, <2>2, Sources
<1>9. \A p \in AllPads : in[p] \in Int
  <2>1. Top(staging[1]) \in Int /\ Top(staging[2]) \in Int
    <3>1. ASSUME NEW x \in Settings
          PROVE  BitOf(x, b) \in Int
      <4>1. Top(Shifted(x, 0, b)) = BitOf(x, b) /\ Shifted(x, 0, b) \in Settings
        BY <1>5, ShiftOne, ShiftedType
      <4>2. QED
        BY <4>1, TopType
    <3>2. QED
      BY <1>4, <1>6, <3>1
  <2>2. SUFFICES ASSUME NEW p \in AllPads
                 PROVE  in[p] \in Int
    OBVIOUS
  <2>3. CASE Feeder(p) \in AllPads
    BY <1>1, <1>2, <2>3, TopType
  <2>4. CASE Feeder(p) \notin AllPads
    BY <1>7, <2>1, <2>4
  <2>5. QED
    BY <2>3, <2>4
<1> HIDE DEF in
<1>10. \A p \in AllPads : shift_register'[p] \in Settings
  BY <1>1, <1>3, <1>9, ShiftInType
<1>11. shift_register' \in [AllPads -> Settings]
  BY <1>1, <1>10
<1>12. Contents(W, shift_register', c, b + 1)
  BY <1>1, <1>2, <1>3, <1>8, ContentsStep
<1>13. QED
  BY <1>1, <1>11, <1>12 DEF Blocks

\* The program never goes back.
LEMMA NextGrows ==
  ASSUME BackDoorInv, BackDoor \/ Issue
  PROVE  program' = program /\ next' \in Nat /\ next' >= next
BY DEF BackDoorInv, BackDoor, BackDoorIdle, BackDoorSetup, BackDoorReadWrite, BackDoorDone,
       Issue, mainVars

\* What a word needs of the registers, when it is fetched.
LEMMA StartStep ==
  ASSUME BackDoorInv, RegisterInv, LoaderInv, LoaderStart,
         NEW W \in [AllPads -> Settings], W = Wanted
  PROVE  Blocks' /\ TransferInv(W)' /\ UNCHANGED control
<1>1. /\ xfer_state = "START" /\ xfer_state' = "XBYTE" /\ xfer_count' = 0 /\ Fall
      /\ staging' = <<gpio_configure[pad_count[1]], gpio_configure[pad_count[2]]>>
      /\ pad_count' = <<pad_count[1] - 1, pad_count[2] + 1>>
      /\ UNCHANGED control /\ serial_clock' = FALSE
  BY DEF LoaderStart, Fall
<1>2. Blocks' /\ UNCHANGED shift_register
  BY <1>1, FallKept DEF LoaderInv
<1>3. gpio_configure = W
  BY <1>1, Configured DEF LoaderInv
<1>4. PICK c \in 0 .. 18 : StartInv(W, c)
  BY <1>1 DEF LoaderInv, TransferInv
<1>5. pad_count' = <<17 - c, 20 + c>> /\ staging' = <<W[18 - c], W[19 + c]>>
  BY <1>1, <1>3, <1>4 DEF StartInv
<1>6. Sent(W, c, 0)'
  <2>1. 18 - c \in AllPads /\ 19 + c \in AllPads /\ 0 \in Settings
    BY Fed
  <2>2. Shifted(W[18 - c], 0, 0) = W[18 - c] /\ Shifted(W[19 + c], 0, 0) = W[19 + c]
    BY <2>1, ShiftAll
  <2>3. QED
    BY <1>5, <2>2 DEF Sent
<1>7. ByteInv(W, c, 0)'
  BY <1>1, <1>2, <1>4, <1>5, <1>6 DEF ByteInv, StartInv
<1>8. 0 \in 0 .. 12
  OBVIOUS
<1>9. QED
  BY <1>1, <1>2, <1>7, <1>8 DEF TransferInv

\* A bit of a word, in two cycles: the pads take it, and the next is held out.
LEMMA ByteStep ==
  ASSUME LoaderInv, LoaderByte, NEW W \in [AllPads -> Settings], W = Wanted
  PROVE  Blocks' /\ TransferInv(W)' /\ UNCHANGED control
<1>1. xfer_state = "XBYTE" /\ UNCHANGED pad_count /\ Blocks
  BY DEF LoaderByte, LoaderInv
<1>2. PICK c \in 0 .. 18, b \in 0 .. 12 : ByteInv(W, c, b)
  BY <1>1 DEF LoaderInv, TransferInv
<1>3. CASE serial_clock
  <2>1. /\ staging' = [i \in 1 .. 2 |-> ShiftIn(staging[i], 0)] /\ Fall
        /\ UNCHANGED <<xfer_count, xfer_state>> /\ serial_clock' = FALSE /\ UNCHANGED control
    BY <1>3 DEF LoaderByte, Fall
  <2>2. Blocks' /\ UNCHANGED shift_register
    BY <1>1, <2>1, FallKept
  <2>3. b >= 1 /\ Sent(W, c, b - 1)
    BY <1>2, <1>3 DEF ByteInv
  <2>4. Sent(W, c, b)'
    <3> DEFINE x == W[18 - c]
               y == W[19 + c]
               d == b - 1
    <3>1. 18 - c \in AllPads /\ 19 + c \in AllPads /\ 0 \in Settings
      BY Fed
    <3>2. x \in Settings /\ y \in Settings
      BY <3>1
    <3>3. d \in 0 .. 12 /\ d + 1 = b
      BY <2>3
    <3>4. staging[1] = Shifted(x, 0, d) /\ staging[2] = Shifted(y, 0, d)
      BY <2>3 DEF Sent
    <3>5. staging'[1] = ShiftIn(staging[1], 0) /\ staging'[2] = ShiftIn(staging[2], 0)
      BY <2>1
    <3> HIDE DEF x, y, d
    <3>6. BitOf(0, d) = 0
      BY <3>1, <3>3, ShiftAll
    <3>7. ShiftIn(Shifted(x, 0, d), BitOf(0, d)) = Shifted(x, 0, d + 1)
      BY <3>1, <3>2, <3>3, ShiftOne
    <3>8. ShiftIn(Shifted(y, 0, d), BitOf(0, d)) = Shifted(y, 0, d + 1)
      BY <3>1, <3>2, <3>3, ShiftOne
    <3>9. staging'[1] = Shifted(x, 0, b) /\ staging'[2] = Shifted(y, 0, b)
      BY <3>3, <3>4, <3>5, <3>6, <3>7, <3>8
    <3>10. QED
      BY <3>9 DEF Sent, x, y
  <2>5. ByteInv(W, c, b)'
    BY <1>1, <1>2, <2>1, <2>2, <2>4 DEF ByteInv
  <2>6. QED
    BY <1>1, <2>1, <2>2, <2>5 DEF TransferInv
<1>4. CASE ~serial_clock
  <2>1. /\ xfer_count' = IF xfer_count = 12 THEN 0 ELSE xfer_count + 1
        /\ xfer_state' = IF xfer_count < 12 THEN "XBYTE"
                         ELSE IF pad_count[2] = 38 THEN "LOAD" ELSE "START"
        /\ Rise /\ UNCHANGED <<staging, control>> /\ serial_clock' = TRUE
    BY <1>4 DEF LoaderByte, Rise, LastBit, Bits, Chain
  <2>2. pad_count = <<17 - c, 20 + c>> /\ xfer_count = b /\ Sent(W, c, b)
        /\ Contents(W, shift_register, c, b)
    BY <1>2, <1>4 DEF ByteInv
  <2>3. Contents(W, shift_register', c, b + 1) /\ Blocks'
    BY <1>1, <1>4, <2>1, <2>2, RiseStep
  <2>4. CASE b < 12
    <3>1. xfer_state' = "XBYTE" /\ xfer_count' = b + 1
      BY <2>1, <2>2, <2>4
    <3>2. Sent(W, c, (b + 1) - 1)'
      BY <2>1, <2>2 DEF Sent
    <3>3. ByteInv(W, c, b + 1)'
      BY <1>1, <2>1, <2>2, <2>3, <3>1, <3>2 DEF ByteInv
    <3>4. b + 1 \in 0 .. 12
      BY <2>4
    <3>5. QED
      BY <2>1, <2>3, <3>1, <3>3, <3>4 DEF TransferInv
  <2>5. CASE b = 12
    <3>1. Contents(W, shift_register', c, 13) /\ shift_register' \in [AllPads -> Settings]
      BY <2>3, <2>5 DEF Blocks
    <3>2. /\ c < 18 => Contents(W, shift_register', c + 1, 0)
          /\ c = 18 => shift_register' = W
      BY <3>1, NextWord
    <3>3. CASE c < 18
      <4>1. xfer_state' = "START"
        BY <2>1, <2>2, <2>5, <3>3
      <4>2. pad_count' = <<18 - (c + 1), 19 + (c + 1)>> /\ c + 1 \in 0 .. 18
        BY <1>1, <2>2, <3>3
      <4>3. StartInv(W, c + 1)'
        BY <3>2, <3>3, <4>2 DEF StartInv
      <4>4. QED
        BY <2>1, <2>3, <4>1, <4>2, <4>3 DEF TransferInv
    <3>4. CASE c = 18
      <4>1. xfer_state' = "LOAD"
        BY <2>1, <2>2, <2>5, <3>4
      <4>2. QED
        BY <2>1, <2>3, <3>2, <3>4, <4>1 DEF TransferInv
    <3>5. QED
      BY <3>3, <3>4
  <2>6. QED
    BY <2>4, <2>5
<1>5. QED
  BY <1>3, <1>4

\* A cycle of the loader, and of the program.
LEMMA LoaderKept ==
  ASSUME BackDoorInv, RegisterInv, LoaderInv, Next
  PROVE  LoaderInv'
<1>1. program' = program /\ next \in Nat /\ next' \in Nat /\ next' >= next
  BY NextGrows DEF Next, Clock, BackDoor, BackDoorInv
<1>2. PICK W : W = Wanted
  OBVIOUS
<1>3. Wanted' = W /\ W \in [AllPads -> Settings]
  BY <1>1, <1>2, WantedStays, WantedModes DEF BackDoorInv
<1>4. xfer_state \in {"IDLE", "START", "XBYTE", "LOAD"} /\ Blocks /\ ConfiguredTogether
  BY DEF LoaderInv
<1>5. (xfer_state # "IDLE" => next' >= 33) /\ (serial_xfer => next' >= 33)
  BY <1>1 DEF LoaderInv, RegisterInv
<1>6. SUFFICES /\ xfer_state' \in {"IDLE", "START", "XBYTE", "LOAD"}
               /\ xfer_state' # "IDLE" => xfer_state # "IDLE" \/ serial_xfer
               /\ Blocks' /\ TransferInv(W)'
               /\ UNCHANGED control \/ control' = W
  <2>1. TransferInv(W)' = TransferInv(Wanted)'
    BY <1>3
  <2>2. ASSUME UNCHANGED control \/ control' = W
        PROVE  ConfiguredTogether'
    BY <1>3, <1>2, <1>4, <2>2 DEF ConfiguredTogether
  <2>3. QED
    BY <1>5, <2>1, <2>2 DEF LoaderInv
<1>7. CASE LoaderIdle
  <2>1. /\ pad_count' = <<18, 19>> /\ Fall /\ UNCHANGED control
        /\ xfer_state' = IF serial_xfer THEN "START" ELSE "IDLE"
    BY <1>7 DEF LoaderIdle, Fall, Chain
  <2>2. Blocks' /\ UNCHANGED shift_register
    BY <1>4, <2>1, FallKept
  <2>3. Contents(W, shift_register', 0, 0)
    BY <1>3, <1>4, <2>2, FirstWord DEF Blocks
  <2>4. StartInv(W, 0)'
    BY <2>1, <2>3 DEF StartInv
  <2>5. 0 \in 0 .. 18
    OBVIOUS
  <2>6. TransferInv(W)'
    BY <2>1, <2>4, <2>5 DEF TransferInv
  <2>7. QED
    BY <2>1, <2>2, <2>6
<1>8. CASE LoaderStart
  <2>1. Blocks' /\ TransferInv(W)' /\ UNCHANGED control
    BY <1>3, <1>2, <1>8, StartStep
  <2>2. xfer_state = "START" /\ xfer_state' = "XBYTE"
    BY <1>8 DEF LoaderStart
  <2>3. QED
    BY <2>1, <2>2
<1>9. CASE LoaderByte
  <2>1. Blocks' /\ TransferInv(W)' /\ UNCHANGED control
    BY <1>3, <1>2, <1>9, ByteStep
  <2>2. xfer_state = "XBYTE" /\ xfer_state' \in {"XBYTE", "LOAD", "START"}
    BY <1>9 DEF LoaderByte
  <2>3. QED
    BY <2>1, <2>2
<1>10. CASE LoaderLoad
  <2>1. /\ xfer_state = "LOAD" /\ xfer_state' \in {"IDLE", "LOAD"} /\ UNCHANGED shift_register
        /\ serial_clock' = FALSE
        /\ serial_data_out' = IF serial_clock THEN [pad \in AllPads |-> Top(shift_register[pad])]
                              ELSE serial_data_out
        /\ control' = shift_register \/ UNCHANGED control
    BY <1>10 DEF LoaderLoad
  <2>2. shift_register = W
    BY <1>2, <2>1 DEF LoaderInv, TransferInv
  <2>3. Blocks'
    BY <1>4, <2>1 DEF Blocks, HeldOut
  <2>4. TransferInv(W)'
    BY <2>1, <2>2 DEF TransferInv
  <2>5. QED
    BY <2>1, <2>2, <2>3, <2>4
<1>11. CASE Issue
  <2>1. UNCHANGED <<xfer_state, xfer_count, pad_count, serial_clock, staging, shift_register,
                    serial_data_out, control>>
    BY <1>11 DEF Issue, loaderVars, blockVars
  <2>2. TransferInv(W)
    BY <1>2 DEF LoaderInv
  <2>3. Blocks' /\ TransferInv(W)'
    BY <1>4, <2>1, <2>2 DEF Blocks, HeldOut, TransferInv, StartInv, ByteInv, Sent
  <2>4. QED
    BY <1>4, <2>1, <2>3
<1>12. QED
  BY <1>7, <1>8, <1>9, <1>10, <1>11 DEF Next, Clock

-----------------------------------------------------------------------------
(* The results.                                                             *)

PadsInv == BackDoorInv /\ RegisterInv /\ DataInv /\ LoaderInv

\* After reset nothing is under way.
LEMMA InitPads ==
  ASSUME Init
  PROVE  PadsInv
<1>1. /\ program \in Programs /\ next = 1 /\ bus = NoAccess /\ BytesDone = 0
      /\ wbbd_state = [s |-> "IDLE", byte |-> 0]
      /\ gpio_configure = [pad \in AllPads |-> ResetMode(pad)] /\ serial_xfer = FALSE
      /\ mgmt_gpio_data_buf = <<0, 0, 0>>
      /\ xfer_state = "IDLE" /\ serial_clock = FALSE
      /\ shift_register = [pad \in AllPads |-> 0]
      /\ serial_data_out = [pad \in AllPads |-> 0]
      /\ control = [pad \in AllPads |-> OwnDefault]
  BY DEF Init, BytesDone
<1>2. IsProgram(accesses, Modes(program))
  BY <1>1, AccessesInOrder DEF Init
<1>3. BackDoorInv
  BY <1>1, <1>2 DEF BackDoorInv
<1>4. RegisterInv
  <2>1. \A pad \in AllPads : ResetMode(pad) \in Settings
    BY DEF ResetMode, Settings
  <2>2. gpio_configure \in [AllPads -> Settings]
    BY <1>1, <2>1
  <2>3. \A k \in 1 .. 32 : ~Written(k)
    BY <1>1 DEF Written
  <2>4. BytesDone # 1
    BY <1>1
  <2>5. QED
    BY <1>1, <2>2, <2>3, <2>4 DEF RegisterInv
<1>5. DataInv
  <2>1. \E x, y, z : mgmt_gpio_data_buf = <<x, y, z>>
    BY <1>1
  <2>2. ~(next >= 35)
    BY <1>1
  <2>3. QED
    BY <2>1, <2>2 DEF DataInv
<1>6. LoaderInv
  <2>1. Top(0) = 0
    <3>1. 2 ^ (Bits - 1) = 4096
      BY DEF Bits
    <3>2. 0 \div 4096 = 0
      OBVIOUS
    <3>3. QED
      BY <3>1, <3>2 DEF Top
  <2>2. 0 \in Settings
    BY DEF Settings
  <2>3. Blocks
    BY <1>1, <2>1, <2>2 DEF Blocks, HeldOut
  <2>4. TransferInv(Wanted)
    BY <1>1 DEF TransferInv
  <2>5. QED
    BY <1>1, <2>3, <2>4 DEF LoaderInv, ConfiguredTogether
<1>7. QED
  BY <1>3, <1>4, <1>5, <1>6 DEF PadsInv

\* Every step keeps the invariant.
LEMMA StepPads ==
  ASSUME PadsInv, [Next]_vars
  PROVE  PadsInv'
<1>1. CASE Next
  <2>1. BackDoor \/ Issue
    BY <1>1 DEF Next, Clock, BackDoor
  <2>2. QED
    BY <1>1, <2>1, BackDoorKept, RegistersKept, DataKept, LoaderKept DEF PadsInv
<1>2. CASE UNCHANGED vars
  <2>1. UNCHANGED <<program, accesses, next, bus, wbbd_state, gpio_configure, serial_xfer,
                    mgmt_gpio_data, mgmt_gpio_data_buf, xfer_state, xfer_count, pad_count,
                    serial_clock, staging, shift_register, serial_data_out, control>>
    BY <1>2 DEF vars, mainVars, backDoorVars, registerVars, loaderVars, blockVars
  <2>2. BytesDone' = BytesDone /\ Wanted' = Wanted
    BY <2>1, WantedStays DEF BytesDone
  <2>3. BackDoorInv' /\ DataInv'
    BY <2>1, <2>2 DEF PadsInv, BackDoorInv, DataInv
  <2>4. RegisterInv'
    BY <2>1, <2>2 DEF PadsInv, RegisterInv, Written, Listed
  <2>5. TransferInv(Wanted)'
    <3>1. PICK W : W = Wanted
      OBVIOUS
    <3>2. TransferInv(W) /\ Wanted' = W
      BY <2>2, <3>1 DEF PadsInv, LoaderInv
    <3>3. TransferInv(W)'
      BY <2>1, <3>2 DEF TransferInv, StartInv, ByteInv, Sent
    <3>4. QED
      BY <3>2, <3>3
  <2>6. LoaderInv'
    <3>1. Blocks'
      BY <2>1 DEF PadsInv, LoaderInv, Blocks, HeldOut
    <3>2. ConfiguredTogether'
      BY <2>1, <2>2 DEF PadsInv, LoaderInv, ConfiguredTogether
    <3>3. QED
      BY <2>1, <2>5, <3>1, <3>2 DEF PadsInv, LoaderInv
  <2>7. QED
    BY <2>3, <2>4, <2>6 DEF PadsInv
<1>3. QED
  BY <1>1, <1>2

\* The back door, the registers and the loader are always in one of the states
\* described above: a transfer runs only when all modes are in their registers,
\* and then every pad a word has reached holds as much of it as was sent.
THEOREM PadsInvariance == Spec => []PadsInv
<1>1. Init => PadsInv
  BY InitPads
<1>2. PadsInv /\ [Next]_vars => PadsInv'
  BY StepPads
<1>3. QED
  BY <1>1, <1>2, PTL DEF Spec

\* All pads take their modes in one cycle, each the one its program wants.
THEOREM ConfiguredAtOnce == Spec => []ConfiguredTogether
<1>1. PadsInv => ConfiguredTogether
  BY DEF PadsInv, LoaderInv
<1>2. QED
  BY <1>1, PadsInvariance, PTL

\* The pins never show half a word.
THEOREM PinsAtOnce == Spec => PinsChangeAtOnce
<1> DEFINE Change == mgmt_gpio_data' # mgmt_gpio_data =>
                       bus.adr = reg_mprj_datal /\ mgmt_gpio_data' = bus.bytes
<1>1. PadsInv /\ [Next]_vars => [Change]_vars
  <2>1. ASSUME PadsInv, Next
        PROVE  Change
    <3>1. BackDoor \/ Issue
      BY <2>1 DEF Next, Clock, BackDoor
    <3>2. QED
      BY <2>1, <3>1, PinsStep DEF PadsInv
  <2> HIDE DEF Change
  <2>2. QED
    BY <2>1
<1> HIDE DEF Change
<1>2. [][Change]_vars <=> PinsChangeAtOnce
  BY PTL DEF Change, PinsChangeAtOnce
<1>3. QED
  BY <1>1, <1>2, PadsInvariance, PTL DEF Spec
=============================================================================
