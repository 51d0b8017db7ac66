------------------------------ MODULE X86Isa -------------------------------
(***************************************************************************)
(* The processor the front end translates for, as a reference: the length  *)
(* of an instruction, the memory its explicit operands access, the         *)
(* registers it writes, what it does to the flags and where it continues.  *)
(* It follows the encoding rules of the x86-64 manual and shares nothing   *)
(* with the decoders but the shape of an address.  Stack traffic of push,  *)
(* pop, call and ret and the stack pointer are outside the comparison, as  *)
(* is an access through fs or gs (another address space).                  *)
(***************************************************************************)
EXTENDS Integers, Sequences, FiniteSets

At(code, p) == IF p < Len(code) THEN code[p + 1] ELSE 0

Legacy == {\h66, \h67, \hf0, \hf2, \hf3, \h26, \h2e, \h36, \h3e, \h64, \h65}

\* The first byte behind the legacy prefixes.
LegacyEnd(code, pc) ==
  CHOOSE q \in pc..Len(code) :
    (\A i \in pc..(q - 1) : At(code, i) \in Legacy) /\ (q = Len(code) \/ At(code, q) \notin Legacy)

\* The fields every rule below refers to: r the REX or VEX extension bits, map the
\* opcode map (1 one-byte, 2 0f, 3 0f38, 4 0f3a), p where the ModR/M byte would be.
Encoding(code, pc, q) ==
  LET Has(b)  == \E i \in pc..(q - 1) : At(code, i) = b
      isRex   == At(code, q) \in \h40..\h4f
      r       == IF isRex THEN At(code, q) % 16 ELSE 0
      o       == IF isRex THEN q + 1 ELSE q
      vex     == IF isRex THEN 0 ELSE CASE At(code, q) = \hc5 -> 2 [] At(code, q) = \hc4 -> 3 [] OTHER -> 0
      vmap    == IF vex = 2 THEN 2 ELSE (At(code, q + 1) % 32) + 1
      two     == vex = 0 /\ At(code, o) = \h0f
      opat    == IF vex > 0 THEN q + vex ELSE IF two THEN o + 1 ELSE o
  IN [map |-> IF vex > 0 THEN vmap ELSE IF two THEN 2 ELSE 1,
      vex |-> vex > 0, hasRex |-> isRex, w |-> r \div 8, rr |-> (r \div 4) % 2, x |-> (r \div 2) % 2,
      b |-> r % 2, osz |-> Has(\h66), seg |-> Has(\h64) \/ Has(\h65),
      f3 |-> Has(\hf3), f2 |-> Has(\hf2), op |-> At(code, opat), p |-> opat + 1,
      mod |-> At(code, opat + 1) \div 64, reg |-> (At(code, opat + 1) \div 8) % 8,
      rm |-> At(code, opat + 1) % 8]

NoModRm1 ==
  (\h40..\h5f) \cup (\h70..\h7f) \cup (\h90..\h9f) \cup (\ha4..\haf) \cup (\hb8..\hbf)
    \cup {\h04, \h05, \h0c, \h0d, \h24, \h25, \h2c, \h2d, \h34, \h35, \h3c, \h3d, \ha8, \ha9,
          \h68, \h6a, \hc3, \hc9, \hcc, \he8, \he9, \heb, \hf5, \hf8, \hf9, \hfc, \hfd}

HasModRm(e) ==
  CASE e.map = 1 -> e.op \notin NoModRm1
    [] e.map = 2 -> e.op \notin (\h80..\h8f) \cup {\h05, \h0b}
    [] OTHER -> TRUE

\* Length of SIB and displacement.
HasSib(e) == e.mod # 3 /\ e.rm = 4

NoBase(e, sib) == e.mod = 0 /\ (e.rm = 5 \/ (e.rm = 4 /\ sib % 8 = 5))

DispLen(e, sib) ==
  CASE e.mod = 1 -> 1 [] e.mod = 2 -> 4 [] NoBase(e, sib) -> 4 [] OTHER -> 0

\* An immediate of operand size is two bytes under the 66 prefix.
Word(e) == IF e.osz /\ e.w = 0 THEN 2 ELSE 4

ImmLen(e) ==
  CASE e.map = 4 -> 1
    [] e.map = 3 -> 0
    [] e.map = 2 -> IF e.op \in \h80..\h8f THEN 4 ELSE IF e.op \in {\hc2, \hc6} THEN 1 ELSE 0
    [] e.op \in \hb8..\hbf -> IF e.w = 1 THEN 8 ELSE Word(e)
    [] e.op \in {\h05, \h0d, \h25, \h2d, \h35, \h3d, \ha9, \h81, \hc7, \h69, \h68} -> Word(e)
    [] e.op \in {\he8, \he9} -> 4
    [] e.op \in {\h04, \h0c, \h24, \h2c, \h34, \h3c, \ha8, \h80, \h83, \hc6, \hc0, \hc1, \h6b,
                 \h6a, \heb} \cup (\h70..\h7f) -> 1
    [] e.op = \hf6 /\ e.reg \in {0, 1} -> 1
    [] e.op = \hf7 /\ e.reg \in {0, 1} -> Word(e)
    [] OTHER -> 0

SInt(code, p, n) ==
  LET S(b) == IF b >= 128 THEN b - 256 ELSE b IN
  CASE n = 0 -> 0
    [] n = 1 -> S(At(code, p))
    [] n = 2 -> At(code, p) + 256 * S(At(code, p + 1))
    [] OTHER -> At(code, p) + 256 * At(code, p + 1) + 65536 * At(code, p + 2)
                  + 16777216 * S(At(code, p + 3))

EffectiveAddress(code, e, sib, d) ==
  LET idx == ((sib \div 8) % 8) + 8 * e.x
      index == IF e.rm = 4 /\ idx # 4 THEN [reg |-> idx, scale |-> 2 ^ (sib \div 64)]
               ELSE [reg |-> -1, scale |-> 1]
  IN IF NoBase(e, sib) THEN [base |-> -1, index |-> index, disp |-> 0, sym |-> TRUE]
     ELSE [base |-> (IF e.rm = 4 THEN sib % 8 ELSE e.rm) + 8 * e.b, index |-> index,
           disp |-> SInt(code, d, DispLen(e, sib)), sym |-> FALSE]

---------------------------------------------------------------------------
\* What the explicit memory operand is used for, and how wide it is.

OpBits(e) == IF e.w = 1 THEN 64 ELSE IF e.osz THEN 16 ELSE 32

SimdBits(e) == IF e.f3 THEN 32 ELSE IF e.f2 THEN 64 ELSE 128

SimdOps == {\h10, \h11, \h14, \h15, \h28, \h29, \h2e, \h2f, \hc2, \hc6, \hd4, \hdb, \heb,
                  \hef, \hfb} \cup (\h51..\h5f)

MemBits(e) ==
  CASE e.vex \/ (e.map = 2 /\ e.op \in SimdOps) -> SimdBits(e)
    [] e.map = 1 /\ e.op \in {\h80, \h82, \hc6, \hc0, \hd0, \hd2, \hf6, \hfe} -> 8
    [] e.map = 1 /\ e.op = \h63 -> 32
    [] e.map = 1 /\ e.op = \hff /\ e.reg \in {2, 4, 6} -> 64
    [] e.map = 2 /\ e.op \in {\hb6, \hbe} \cup (\h90..\h9f) -> 8
    [] e.map = 2 /\ e.op \in {\hb7, \hbf} -> 16
    [] OTHER -> OpBits(e)

Stores(e) ==
  \/ e.map = 1 /\ e.op \in {\h01, \h09, \h21, \h29, \h31, \h89, \h87, \hc6, \hc7}
  \/ e.map = 1 /\ e.op \in {\h80, \h81, \h83} /\ e.reg # 7
  \/ e.map = 1 /\ e.op \in {\hc0, \hc1, \hd0, \hd1, \hd2, \hd3}
  \/ e.map = 1 /\ e.op \in {\hfe, \hff} /\ e.reg \in {0, 1}
  \/ e.map = 2 /\ e.op \in {\hab, \hb3, \hbb, \h11, \h29} \cup (\h90..\h9f)

Loads(e) ==
  ~(e.map = 1 /\ e.op \in {\h89, \hc6, \hc7, \h8d})
    /\ ~(e.map = 2 /\ e.op \in {\h1f, \h11, \h29} \cup (\h90..\h9f))

Explicit(e, addr) ==
  IF e.mod = 3 \/ ~HasModRm(e) \/ e.seg THEN {}
  ELSE {[op |-> o, addr |-> addr, bits |-> MemBits(e)] :
          o \in (IF Loads(e) THEN {"load"} ELSE {}) \cup (IF Stores(e) THEN {"store"} ELSE {})}

---------------------------------------------------------------------------
\* Registers written.

Reg(e) == e.reg + 8 * e.rr

Rm(e) == e.rm + 8 * e.b

\* Without REX the byte registers 4..7 are ah, ch, dh and bh.
ByteRm(e) == IF ~e.hasRex /\ e.rm \in 4..7 THEN e.rm - 4 ELSE Rm(e)

CallerSaved == {0, 1, 2, 6, 7, 8, 9, 10, 11}

RmWritten(e) ==
  CASE e.mod # 3 -> {}
    [] e.map = 1 /\ e.op \in {\h80, \hc6, \hc0, \hd0, \hd2, \hfe} /\ Stores(e) -> {ByteRm(e)}
    [] e.map = 1 /\ e.op = \hf6 /\ e.reg \in {2, 3} -> {ByteRm(e)}
    [] e.map = 1 /\ e.op = \hf7 /\ e.reg \in {2, 3} -> {Rm(e)}
    [] e.map = 2 /\ e.op \in \h90..\h9f -> {ByteRm(e)}
    [] Stores(e) -> {Rm(e)}
    [] OTHER -> {}

OthersWritten(e) ==
  CASE e.map = 1 /\ e.op \in \hb8..\hbf -> {e.op - \hb8 + 8 * e.b}
    [] e.map = 1 /\ e.op \in \h58..\h5f -> {e.op - \h58 + 8 * e.b}
    [] e.map = 1 /\ e.op \in \h91..\h97 -> {0, e.op - \h90 + 8 * e.b}
    [] e.map = 1 /\ e.op \in {\h03, \h0b, \h23, \h2b, \h33, \h8b, \h8d, \h63, \h69, \h6b, \h87} -> {Reg(e)}
    [] e.map = 1 /\ e.op \in {\h04, \h05, \h0c, \h0d, \h24, \h25, \h2c, \h2d, \h34, \h35, \h98, \h9f} -> {0}
    [] e.map = 1 /\ e.op = \h99 -> {2}
    [] e.map = 1 /\ e.op = \hc9 -> {5}
    [] e.map = 1 /\ e.op = \hf7 /\ e.reg \in 4..7 -> {0, 2}
    [] e.map = 1 /\ (e.op = \he8 \/ (e.op = \hff /\ e.reg = 2)) -> CallerSaved
    [] e.map = 2 /\ e.op = \h05 -> {0, 1, 11}
    [] e.map = 2 /\ e.op \in (\h40..\h4f) \cup {\hb6, \hb7, \hbe, \hbf, \haf, \hbc, \hbd} -> {Reg(e)}
    [] OTHER -> {}

---------------------------------------------------------------------------
\* Flags: a comparison (the difference or the conjunction of two operands), left
\* alone, or some other result.

RmOperandOf(e, pc) == IF e.mod = 3 THEN [kind |-> "reg", v |-> Rm(e)] ELSE [kind |-> "tmp", v |-> pc]

RegOf(e) == [kind |-> "reg", v |-> Reg(e)]

Rax == [kind |-> "reg", v |-> 0]

ImmOf(code, end, n) == [kind |-> "imm", v |-> SInt(code, end - n, n)]

Sets(kind, a, b) == [kind |-> kind, a |-> a, b |-> b]

KeepsFlags(e) ==
  \/ e.map = 1 /\ e.op \in (\h50..\h5f) \cup (\h70..\h7f) \cup (\h90..\h9f) \cup (\hb8..\hbf)
                             \cup {\h89, \h8b, \h8d, \h63, \h87, \hc6, \hc7, \h68, \h6a, \heb, \he9}
  \/ e.map = 1 /\ e.op \in {\hf6, \hf7} /\ e.reg = 2
  \/ e.map = 2 /\ e.op \in (\h40..\h4f) \cup (\h80..\h9f) \cup {\h1f, \hb6, \hb7, \hbe, \hbf, \hae}

FlagsOf(code, e, pc, end) ==
  CASE e.map = 1 /\ e.op = \h39 -> Sets("sub", RmOperandOf(e, pc), RegOf(e))
    [] e.map = 1 /\ e.op = \h3b -> Sets("sub", RegOf(e), RmOperandOf(e, pc))
    [] e.map = 1 /\ e.op \in {\h3c, \h3d} -> Sets("sub", Rax, ImmOf(code, end, ImmLen(e)))
    [] e.map = 1 /\ e.op \in {\h80, \h81, \h83} /\ e.reg = 7 ->
         Sets("sub", RmOperandOf(e, pc), ImmOf(code, end, ImmLen(e)))
    [] e.map = 1 /\ e.op = \h85 -> Sets("and", RmOperandOf(e, pc), RegOf(e))
    [] e.map = 1 /\ e.op \in {\ha8, \ha9} -> Sets("and", Rax, ImmOf(code, end, ImmLen(e)))
    [] e.map = 1 /\ e.op \in {\hf6, \hf7} /\ e.reg \in {0, 1} ->
         Sets("and", RmOperandOf(e, pc), ImmOf(code, end, ImmLen(e)))
    [] KeepsFlags(e) -> Sets("keep", Rax, Rax)
    [] OTHER -> Sets("other", Rax, Rax)

---------------------------------------------------------------------------
\* Control.

Halts(e) ==
  \/ e.map = 1 /\ e.op \in {\hc3, \hcc}
  \/ e.map = 1 /\ e.op = \hff /\ e.reg = 4
  \/ e.map = 2 /\ e.op = \h0b

Jumps(e) == e.map = 1 /\ e.op \in {\he9, \heb}

Branches(e) == (e.map = 1 /\ e.op \in \h70..\h7f) \/ (e.map = 2 /\ e.op \in \h80..\h8f)

Successors(code, e, end) ==
  LET target == end + SInt(code, end - ImmLen(e), ImmLen(e)) IN
  CASE Halts(e) -> {} [] Jumps(e) -> {target} [] Branches(e) -> {end, target} [] OTHER -> {end}

Described(code, pc, e, sib, end) ==
  [next   |-> end,
   acc    |-> Explicit(e, EffectiveAddress(code, e, sib, e.p + 1 + (IF HasSib(e) THEN 1 ELSE 0))),
   writes |-> (RmWritten(e) \cup OthersWritten(e)) \ {4},
   flags  |-> FlagsOf(code, e, pc, end),
   branch |-> Branches(e),
   succ   |-> Successors(code, e, end)]

Measured(code, pc, e, sib) ==
  Described(code, pc, e, sib,
            IF HasModRm(e)
            THEN e.p + 1 + (IF HasSib(e) THEN 1 ELSE 0) + (IF e.mod = 3 THEN 0 ELSE DispLen(e, sib)) + ImmLen(e)
            ELSE e.p + ImmLen(e))

OfEncoding(code, pc, e) == Measured(code, pc, e, IF HasSib(e) THEN At(code, e.p + 1) ELSE 0)

\* The machine instruction at pc.
Isa(code, pc) == OfEncoding(code, pc, Encoding(code, pc, LegacyEnd(code, pc)))

=============================================================================
