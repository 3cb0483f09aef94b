-------------------------------- MODULE CsrBuffer -------------------------
(***************************************************************************)
(* The accessors of hw/common.h for a CSR wider than one register: it lies *)
(* in subregisters of dw bytes and is written and read as one number or as *)
(* a buffer of elements of es bytes, whichever of the two is wider.        *)
(* Each step is one access to a subregister.                               *)
(***************************************************************************)
EXTENDS Integers, Sequences

CONSTANTS Byte,       \* the values of a byte: 256
          DataWidths, \* CSR_DW_BYTES, of which the code is written for any
          ElemSizes,  \* sizeof(buf[0])
          MaxBytes    \* bound: the bytes of the CSR

ASSUME BufferAssumption == /\ Byte \in Nat /\ Byte > 1
                           /\ DataWidths \subseteq Nat \ {0}
                           /\ ElemSizes \subseteq Nat \ {0}
                           /\ MaxBytes \in Nat \ {0}

\* All of these sizes are powers of two, so one of any two divides the other.
ASSUME WidthsAssumption == \A d \in DataWidths, e \in ElemSizes : e % d = 0 \/ d % e = 0

\* How many values k bytes have.
Span[k \in Nat] == IF k = 0 THEN 1 ELSE Byte * Span[k - 1]

VARIABLES dw, bytes,   \* CSR_DW_BYTES, and the size of the CSR
          subregs,     \* the CSR: what its subregisters hold
          access,      \* the accessor that is called
          buf, next,   \* its elements, and the next subregister to access
          number       \* history: the number that was written

bufferVars == <<dw, bytes, subregs, access, buf, next, number>>

num_subregs(csr_bytes) == (csr_bytes - 1) \div dw + 1

NoAccess == [op |-> "none"]
Busy(op) == access.op = op /\ next < Len(subregs)

\* The calls there are for the CSR: a buffer, or one element by itself.
Shapes == {s \in [es : ElemSizes, cnt : 1 .. MaxBytes, scalar : BOOLEAN] :
             s.es * s.cnt = bytes /\ (s.scalar => s.cnt = 1)}

\* Element k (from 0) of a number cut into cnt elements, first one on top.
Cut(n, es, cnt, k) == (n \div Span[es * (cnt - 1 - k)]) % Span[es]

(* An element takes one or more whole subregisters, which hold its slices,   *)
(* or a subregister holds several elements.                                  *)
Whole == access.scalar \/ access.es >= dw
nsubelems == dw \div access.es
offset == num_subregs(access.es * access.cnt) * nsubelems - access.cnt

\* The element that subregister i has a slice of, and which slice.
Owner(i) == i \div num_subregs(access.es)
SliceOf(i) == i % num_subregs(access.es)

\* Mutation: the least significant slice is written first.
SliceLowFirst(v, k) == (v \div Span[dw * k]) % Span[dw]

\* _csr_wr: slice k of v, the most significant one first.
Slice(v, k) == (v \div Span[dw * (num_subregs(access.es) - 1 - k)]) % Span[dw]

\* The elements in subregister i, put together; offset of them are padding.
Packed(i) ==
  LET v[j \in 0 .. nsubelems] ==
        IF j = 0 THEN 0
        ELSE IF i * nsubelems + (j - 1) - offset >= 0
               THEN v[j - 1] * Span[access.es] + buf[i * nsubelems + (j - 1) - offset]
               ELSE v[j - 1]
  IN  v[nsubelems]

\* _csr_wr_buf and the csr_wr functions.
BeginWrite(s, n) ==
  /\ access = NoAccess /\ number = -1
  /\ access' = [op |-> "write", es |-> s.es, cnt |-> s.cnt, scalar |-> s.scalar]
  /\ buf' = [k \in 0 .. s.cnt - 1 |-> Cut(n, s.es, s.cnt, k)]
  /\ next' = 0
  /\ number' = n
  /\ UNCHANGED <<dw, bytes, subregs>>

WriteSubreg ==
  /\ Busy("write")
  /\ subregs' = [subregs EXCEPT ![next + 1] =
       IF Whole THEN Slice(buf[Owner(next)], SliceOf(next)) ELSE Packed(next)]
  /\ next' = next + 1
  /\ UNCHANGED <<dw, bytes, access, buf, number>>

\* _csr_rd_buf and the csr_rd functions.  What was in the buffer is replaced.
BeginRead(s) ==
  /\ access = NoAccess /\ number # -1
  /\ access' = [op |-> "read", es |-> s.es, cnt |-> s.cnt, scalar |-> s.scalar]
  /\ buf' = [k \in 0 .. s.cnt - 1 |-> 0]
  /\ next' = 0
  /\ UNCHANGED <<dw, bytes, subregs, number>>

\* A slice is shifted into its element, or the elements out of a subregister.
ReadSubreg ==
  /\ Busy("read")
  /\ LET r == subregs[next + 1] IN
     buf' = [k \in DOMAIN buf |->
       IF Whole
         THEN IF Owner(next) # k THEN buf[k]
              ELSE (buf[k] * Span[dw] + r) % Span[access.es]
         ELSE LET j == k + offset - next * nsubelems IN
              IF j \in 0 .. nsubelems - 1
                THEN (r \div Span[access.es * (nsubelems - 1 - j)]) % Span[access.es]
                ELSE buf[k]]
  /\ next' = next + 1
  /\ UNCHANGED <<dw, bytes, subregs, access, number>>

EndAccess ==
  /\ access # NoAccess /\ next = Len(subregs)
  /\ access' = NoAccess
  /\ UNCHANGED <<dw, bytes, subregs, buf, next, number>>

BufferInit ==
  /\ dw \in DataWidths
  /\ bytes \in {es * cnt : es \in ElemSizes, cnt \in 1 .. MaxBytes}
  /\ bytes <= MaxBytes
  /\ subregs = [i \in 1 .. num_subregs(bytes) |-> 0]
  /\ access = NoAccess /\ buf = <<>> /\ next = 0 /\ number = -1

BufferNext ==
  \/ \E s \in Shapes : BeginRead(s) \/ \E n \in 0 .. Span[bytes] - 1 : BeginWrite(s, n)
  \/ WriteSubreg \/ ReadSubreg \/ EndAccess

-----------------------------------------------------------------------------
\* However a number is cut, into subregisters or into elements, it is the same
\* number: a CSR written by one accessor is read back by any other, and what
\* is padded is on its left and zero.
Joined(parts, from, to, size) ==
  LET upTo[k \in from - 1 .. to] ==
        IF k = from - 1 THEN 0 ELSE upTo[k - 1] * Span[size] + parts[k]
  IN  upTo[to]

AccessorsAgree ==
  access # NoAccess /\ next = Len(subregs) =>
    /\ Joined(subregs, 1, Len(subregs), dw) = number
    /\ Joined(buf, 0, access.cnt - 1, access.es) = number
=============================================================================
