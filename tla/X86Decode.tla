----------------------------- MODULE X86Decode -----------------------------
(***************************************************************************)
(* The x86-64 front end: from machine bytes to MSIR, one instruction at a  *)
(* time.  There are two decoders.  `decode_one` (lower.rs) lowers a small  *)
(* set of instructions exactly; when it declines one, `bridge_unmodeled`   *)
(* asks the typed decoder (decode.rs, opcode.rs, sse.rs, vex.rs) for its   *)
(* length and whether it branches or touches memory, and replaces it by an *)
(* opaque call that forgets every register.                                *)
(*                                                                         *)
(* Code is a sequence of bytes, offsets count from zero.  An MSIR          *)
(* instruction is reduced to what later stages check or lose by: the       *)
(* access it makes, the register it defines, and the comparison a branch   *)
(* tests.  Values are abstracted; so are the address temporaries, since a  *)
(* PtrOffset chain denotes base + index * scale + disp.                    *)
(***************************************************************************)
EXTENDS Integers, Sequences, FiniteSets

Byte(code, p) == code[p + 1]

Has(code, p, n) == p + n <= Len(code)

Signed(b) == IF b >= 128 THEN b - 256 ELSE b

\* A little-endian immediate of one or four bytes, as the signed number with these
\* bits; an arm of the code that widens it without its sign says so by RawImm.
read_imm(code, p, len) ==
  IF len = 1 THEN Signed(Byte(code, p))
  ELSE Byte(code, p) + 256 * Byte(code, p + 1) + 65536 * Byte(code, p + 2)
         + 16777216 * Signed(Byte(code, p + 3))

Rex(b) == [w |-> (b \div 8) % 2, r |-> (b \div 4) % 2, x |-> (b \div 2) % 2, b |-> b % 2]

NoRex == Rex(0)

IsRex(b) == b \in \h40..\h4f

\* The fields of a ModR/M or SIB byte: two bits, three bits, three bits.
Top(b) == b \div 64

Middle(b) == (b \div 8) % 8

Low(b) == b % 8

modrm(code, at, rex) ==
  LET b == Byte(code, at) IN
  [mode |-> Top(b), reg |-> Middle(b) + 8 * rex.r, rm |-> Low(b) + 8 * rex.b]

Digit(m) == Low(m.reg)

---------------------------------------------------------------------------
\* Memory operands: [base + index * scale + disp], or a global addressed by a
\* displacement the linker fills in (`sym`).

NoIndex == [reg |-> -1, scale |-> 1]

Address(base, index, disp) == [base |-> base, index |-> index, disp |-> disp, sym |-> FALSE]

GlobalAddress(index) == [base |-> -1, index |-> index, disp |-> 0, sym |-> TRUE]

NoMem == [ok |-> FALSE, next |-> 0, addr |-> GlobalAddress(NoIndex)]

MemAt(next, addr) == [ok |-> TRUE, next |-> next, addr |-> addr]

Displaced(code, p, mode, base, index) ==
  CASE mode = 0 -> MemAt(p, Address(base, index, 0))
    [] mode = 1 /\ Has(code, p, 1) -> MemAt(p + 1, Address(base, index, read_imm(code, p, 1)))
    [] mode = 2 /\ Has(code, p, 4) -> MemAt(p + 4, Address(base, index, read_imm(code, p, 4)))
    [] OTHER -> NoMem

SibIndex(sib, rex) ==
  IF Middle(sib) # 4 \/ rex.x = 1
  THEN [reg |-> Middle(sib) + 8 * rex.x, scale |-> 2 ^ Top(sib)]
  ELSE NoIndex

SibOperand(code, p, m, rex, sib) ==
  IF m.mode = 0 /\ Low(sib) = 5
  THEN MemAt(p + 4, GlobalAddress(SibIndex(sib, rex)))
  ELSE Displaced(code, p, m.mode, Low(sib) + 8 * rex.b, SibIndex(sib, rex))

mem_operand(code, p, m, rex) ==
  CASE Low(m.rm) = 4 /\ Has(code, p, 1) -> SibOperand(code, p + 1, m, rex, Byte(code, p))
    [] Low(m.rm) = 4 /\ ~Has(code, p, 1) -> NoMem
    [] Low(m.rm) = 5 /\ m.mode = 0 -> MemAt(p + 4, GlobalAddress(NoIndex))
    [] OTHER -> Displaced(code, p, m.mode, m.rm, NoIndex)

\* The r/m operand at `p`: a register, or memory with its address.
NoOperand == [ok |-> FALSE, mem |-> FALSE, m |-> [mode |-> 0, reg |-> 0, rm |-> 0],
              addr |-> NoMem.addr, next |-> 0]

OperandOf(m, mem) == [ok |-> mem.ok, mem |-> TRUE, m |-> m, addr |-> mem.addr, next |-> mem.next]

OperandFor(code, p, rex, m) ==
  IF m.mode = 3 THEN [NoOperand EXCEPT !.ok = TRUE, !.m = m, !.next = p + 1]
  ELSE OperandOf(m, mem_operand(code, p + 1, m, rex))

rm_operand(code, p, rex) ==
  IF ~Has(code, p, 1) THEN NoOperand ELSE OperandFor(code, p, rex, modrm(code, p, rex))

---------------------------------------------------------------------------
\* MSIR instructions and the result of decoding one machine instruction.

Tmp == 16

Inst(op, dst, addr, bits) == [op |-> op, dst |-> dst, addr |-> addr, bits |-> bits]

Load(dst, addr, bits) == Inst("load", dst, addr, bits)

Store(addr, bits) == Inst("store", -1, addr, bits)

Assign(dst) == Inst("assign", dst, NoMem.addr, 0)

Barrier == Inst("barrier", -1, NoMem.addr, 0)

\* sub rsp, n and push: the stack pointer becomes a fresh stack region.
AllocStack == Inst("alloc", 4, NoMem.addr, 0)

\* A call, to a name the linker supplies or to nothing known: it defines rax.
opaque_call == Inst("call", 0, NoMem.addr, 0)

Operand(kind, v) == [kind |-> kind, v |-> v]

RegOperand(r) == Operand("reg", r)

\* An immediate as the code widens it: masked without sign extension, so that a
\* negative one of a 64-bit operation is not the value the machine compares with.
RawImm(v, w) == Operand(IF v < 0 /\ w = 64 THEN "zext" ELSE "imm", v)

SignedImm(v) == Operand("imm", v)

NoFlags == [known |-> FALSE, a |-> SignedImm(0), b |-> SignedImm(0)]

Compared(a, b) == [known |-> TRUE, a |-> a, b |-> b]

Ctrl(kind, target, cond) == [kind |-> kind, target |-> target, cond |-> cond]

Fall == Ctrl("fall", 0, NoFlags)

Ret == Ctrl("ret", 0, NoFlags)

Decoded(insts, next, ctrl, flags) ==
  [ok |-> TRUE, insts |-> insts, next |-> next, ctrl |-> ctrl, flags |-> flags]

Failed == [ok |-> FALSE, insts |-> <<>>, next |-> 0, ctrl |-> Ret, flags |-> NoFlags]

Done(insts, next, flags) == Decoded(insts, next, Fall, flags)

\* What the arms of decode_one do with an r/m operand.
Modify(o, w) ==
  IF o.mem THEN <<Load(Tmp, o.addr, w), Assign(Tmp), Store(o.addr, w)>> ELSE <<Assign(o.m.rm)>>

Fetch(o, w, dst) ==
  IF o.mem THEN <<Load(Tmp, o.addr, w), Assign(dst)>> ELSE <<Assign(dst)>>

Peek(o, w) == IF o.mem THEN <<Load(Tmp, o.addr, w)>> ELSE <<>>

Replace(o, w) == IF o.mem THEN <<Store(o.addr, w)>> ELSE <<Assign(o.m.rm)>>

RmValue(o, pos) == IF o.mem THEN Operand("tmp", pos) ELSE RegOperand(o.m.rm)

---------------------------------------------------------------------------
\* Branches.

\* The condition codes whose comparison is modelled (b ae e ne be a l ge le g).
cc_cmpop == (2..7) \cup (12..15)

\* A known comparison makes the condition exact, otherwise it is unconstrained.
CondOf(cc, flags) == IF cc \in cc_cmpop THEN flags ELSE NoFlags

branch_target(np, rel) == np + rel

Branch(insts, kind, np, rel, cond, flags) ==
  IF branch_target(np, rel) < 0 THEN Failed
  ELSE Decoded(insts, np, Ctrl(kind, branch_target(np, rel), cond), flags)

\* The condition is computed into a temporary of the branch.
jcc(np, rel, cc, flags) == Branch(<<Assign(Tmp)>>, "jcc", np, rel, CondOf(cc, flags), flags)

---------------------------------------------------------------------------
\* One-byte opcodes, in the order of the arms of decode_one's match.

\* nop, ret, leave.
PlainArm(op, p, flags) == IF op = \hc3 THEN Decoded(<<>>, p, Ret, flags) ELSE Done(<<>>, p, flags)

\* mov r, imm
MovRegImm(op, code, p, rex, flags) ==
  LET n == IF rex.w = 1 THEN 8 ELSE 4 IN
  IF Has(code, p, n) THEN Done(<<Assign(op - \hb8 + 8 * rex.b)>>, p + n, flags) ELSE Failed

\* <alu> r/m, r and <alu> r, r/m
AluToRm(o, w, flags) == Done(Modify(o, w), o.next, flags)

AluFromRm(o, w, flags) == Done(Fetch(o, w, o.m.reg), o.next, flags)

\* mov r/m, r; mov r, r/m; lea r, m
MovToRm(o, w, flags) == Done(Replace(o, w), o.next, flags)

MovFromRm(o, w, flags) ==
  Done(IF o.mem THEN <<Load(o.m.reg, o.addr, w)>> ELSE <<Assign(o.m.reg)>>, o.next, flags)

LeaArm(o, flags) == IF o.mem THEN Done(<<Assign(o.m.reg)>>, o.next, flags) ELSE Failed

\* Accumulator forms: al, imm8 (even opcode) or eax, imm32; cmp and test compare.
Accumulator == {\h04, \h05, \h0c, \h0d, \h24, \h25, \h2c, \h2d, \h34, \h35, \h3c, \ha8, \ha9}

AccumulatorArm(op, code, p, w, flags) ==
  LET n == IF op % 2 = 0 THEN 1 ELSE 4 IN
  CASE ~Has(code, p, n) -> Failed
    [] op \in {\h3c, \ha8, \ha9} ->
         Done(<<>>, p + n, Compared(RegOperand(0),
                                    RawImm(read_imm(code, p, n), IF n = 1 THEN 8 ELSE w)))
    [] OTHER -> Done(<<Assign(0)>>, p + n, flags)

\* imul r, r/m, imm
MulImm(op, o, code, w, flags) ==
  LET n == IF op = \h69 THEN 4 ELSE 1 IN
  IF Has(code, o.next, n) THEN Done(Fetch(o, w, o.m.reg), o.next + n, flags) ELSE Failed

\* /digit of group 1 by an immediate: adc and sbb are refused, /7 is cmp; sub and
\* add on the stack pointer open and close a frame.
AluDigits == {0, 1, 4, 5, 6, 7}

Group1(op, o, code, pos, w, flags) ==
  LET n  == IF op = \h81 THEN 4 ELSE 1
      ow == IF op = \h80 THEN 8 ELSE w IN
  CASE ~Has(code, o.next, n) \/ Digit(o.m) \notin AluDigits -> Failed
    [] Digit(o.m) = 7 ->
         Done(Peek(o, ow), o.next + n,
              Compared(RmValue(o, pos), SignedImm(read_imm(code, o.next, n))))
    [] ~o.mem /\ o.m.rm = 4 /\ op # \h80 /\ Digit(o.m) = 5 -> Done(<<AllocStack>>, o.next + n, flags)
    [] ~o.mem /\ o.m.rm = 4 /\ op # \h80 /\ Digit(o.m) = 0 -> Done(<<>>, o.next + n, flags)
    [] OTHER -> Done(Modify(o, ow), o.next + n, flags)

\* cmp r/m, r; cmp r, r/m; cmp eax, imm32; test r/m, r
CmpRmReg(o, pos, w) == Done(Peek(o, w), o.next, Compared(RmValue(o, pos), RegOperand(o.m.reg)))

CmpRegRm(o, pos, w) == Done(Peek(o, w), o.next, Compared(RegOperand(o.m.reg), RmValue(o, pos)))

CmpImm(code, p, w) ==
  IF Has(code, p, 4)
  THEN Done(<<>>, p + 4, Compared(RegOperand(0), RawImm(read_imm(code, p, 4), w)))
  ELSE Failed

TestArm(o, w) ==
  Done(Peek(o, w), o.next,
       IF ~o.mem /\ o.m.rm = o.m.reg THEN Compared(RegOperand(o.m.rm), SignedImm(0)) ELSE NoFlags)

\* jmp rel8 and rel32; call rel32; jcc rel8
JmpArm(code, p, n, flags) ==
  IF Has(code, p, n) THEN Branch(<<>>, "jmp", p + n, read_imm(code, p, n), NoFlags, flags) ELSE Failed

CallArm(code, p, flags) == IF Has(code, p, 4) THEN Done(<<opaque_call>>, p + 4, flags) ELSE Failed

JccArm(op, code, p, flags) ==
  IF Has(code, p, 1) THEN jcc(p + 1, read_imm(code, p, 1), op - \h70, flags) ELSE Failed

\* movsxd r, r/m32
MovsxdArm(o, flags) == Done(Fetch(o, 32, o.m.reg), o.next, flags)

\* push and pop of a register, push of an immediate of n bytes: a push opens a new
\* stack region and stores to it, a pop reads the current one.
PushArm(p, rex, flags) ==
  Done(<<AllocStack, Store(Address(4, NoIndex, 0), IF rex.w = 1 THEN 64 ELSE 32)>>, p, flags)

PopArm(op, p, rex, flags) ==
  Done(<<Load(op - \h58 + 8 * rex.b, Address(4, NoIndex, 0), IF rex.w = 1 THEN 64 ELSE 32)>>, p, flags)

PushImm(code, p, n, flags) ==
  IF Has(code, p, n) THEN Done(<<AllocStack, Store(Address(4, NoIndex, 0), 64)>>, p + n, flags) ELSE Failed

\* xchg rax, r; xchg r/m, r; cdqe and cqo
ExchangeRax(op, p, rex, flags) ==
  Done(<<Assign(Tmp), Assign(0), Assign(op - \h91 + 8 * rex.b)>>, p, flags)

ExchangeArm(o, w, flags) ==
  Done(IF o.mem THEN <<Barrier, Load(Tmp, o.addr, w), Store(o.addr, w), Assign(o.m.reg)>>
       ELSE <<Assign(Tmp), Assign(o.m.reg), Assign(o.m.rm)>>, o.next, flags)

SignArm(op, p, flags) == Done(<<Assign(IF op = \h98 THEN 0 ELSE 2)>>, p, flags)

\* mov r/m, imm: the immediate is read right behind the ModR/M byte and the rest
\* of a memory operand only behind the immediate.
MovMem(mem, bits, flags) ==
  IF mem.ok THEN Done(<<Store(mem.addr, bits)>>, mem.next, flags) ELSE Failed

MovImm(code, p, rex, n, bits, flags, m) ==
  CASE ~Has(code, p + 1, n) -> Failed
    [] m.mode = 3 -> Done(<<Assign(m.rm)>>, p + 1 + n, flags)
    [] OTHER -> MovMem(mem_operand(code, p + 1 + n, m, rex), bits, flags)

MovImmArm(op, code, p, rex, w, flags) ==
  IF ~Has(code, p, 1) THEN Failed
  ELSE MovImm(code, p, rex, IF op = \hc7 THEN 4 ELSE 1, IF op = \hc7 THEN w ELSE 8, flags,
              modrm(code, p, rex))

ShiftArm(op, o, code, flags) ==
  LET n == IF op \in {\hc0, \hc1} THEN 1 ELSE 0 IN
  IF o.mem \/ Digit(o.m) \notin {4, 5, 7} \/ ~Has(code, o.next, n) THEN Failed
  ELSE Done(<<Assign(o.m.rm)>>, o.next + n, flags)

\* Group 3: not, neg; for words also test by an immediate, mul and div.
Group3(op, o, code, w, flags) ==
  CASE o.mem -> Failed
    [] Digit(o.m) \in {2, 3} -> Done(<<Assign(o.m.rm)>>, o.next, flags)
    [] op = \hf6 -> Failed
    [] Digit(o.m) \in {0, 1} ->
         IF ~Has(code, o.next, 4) THEN Failed
         ELSE Done(<<>>, o.next + 4,
                   Compared(RegOperand(o.m.rm), RawImm(read_imm(code, o.next, 4), w)))
    [] OTHER -> Done(<<Assign(0), Assign(2)>>, o.next, flags)

\* Groups 4 and 5: inc, dec; calls and jumps through r/m end in an opaque call or
\* stop the path.
Group5(op, o, w, flags) ==
  CASE Digit(o.m) \in {0, 1} -> Done(Modify(o, IF op = \hfe THEN 8 ELSE w), o.next, flags)
    [] op = \hff /\ Digit(o.m) = 2 -> Done(Append(Peek(o, w), opaque_call), o.next, flags)
    [] op = \hff /\ Digit(o.m) = 4 -> Decoded(Peek(o, w), o.next, Ret, flags)
    [] OTHER -> Failed

---------------------------------------------------------------------------
\* Two-byte opcodes 0f xx.

\* jcc rel32; setcc of a register
JccNear(op2, code, p, flags) ==
  IF Has(code, p, 4) THEN jcc(p + 4, read_imm(code, p, 4), op2 - \h80, flags) ELSE Failed

SetccArm(o, flags) ==
  IF o.mem THEN Failed ELSE Done(<<Assign(Tmp), Assign(o.m.rm)>>, o.next, flags)

\* cmov and imul read an operand, movzx and movsx a byte or a word of it.
CmovArm(o, w, flags) == Done(Fetch(o, w, o.m.reg), o.next, flags)

ExtendArm(op2, o, flags) ==
  Done(Fetch(o, IF op2 \in {\hb6, \hbe} THEN 8 ELSE 16, o.m.reg), o.next, flags)

ImulArm(o, w, flags) == Done(Fetch(o, w, o.m.reg), o.next, flags)

FenceArm(o, flags) ==
  IF o.mem \/ Digit(o.m) \notin {5, 6, 7} THEN Failed ELSE Done(<<Barrier>>, o.next, flags)

\* bt reads, bts, btr and btc write back, bsf and bsr define the register.
BitOps == {\ha3, \hab, \hb3, \hbb}

BitArm(op2, o, w, flags) ==
  CASE op2 \in {\hbc, \hbd} -> Done(Fetch(o, w, o.m.reg), o.next, flags)
    [] op2 = \ha3 -> Done(Peek(o, w), o.next, flags)
    [] o.mem -> Done(<<Load(Tmp, o.addr, w), Store(o.addr, w)>>, o.next, flags)
    [] OTHER -> Done(<<Assign(o.m.rm)>>, o.next, flags)

decode_two_byte(op2, o, code, p, w, flags) ==
  CASE op2 = \h05 -> Done(<<opaque_call>>, p, flags)
    [] op2 = \h0b -> Decoded(<<>>, p, Ret, flags)
    [] op2 \in \h80..\h8f -> JccNear(op2, code, p, flags)
    [] ~o.ok -> Failed
    [] op2 = \h1f -> Done(<<>>, o.next, flags)
    [] op2 \in \h40..\h4f -> CmovArm(o, w, flags)
    [] op2 \in \h90..\h9f -> SetccArm(o, flags)
    [] op2 \in {\hb6, \hb7, \hbe, \hbf} -> ExtendArm(op2, o, flags)
    [] op2 = \hae -> FenceArm(o, flags)
    [] op2 = \haf -> ImulArm(o, w, flags)
    [] op2 \in BitOps \cup {\hbc, \hbd} -> BitArm(op2, o, w, flags)
    [] OTHER -> Failed

---------------------------------------------------------------------------
\* decode_one: prefixes, then the opcode.

\* The arms that begin with a ModR/M byte.
RmArm(op, o, code, pos, w, flags) ==
  CASE ~o.ok -> Failed
    [] op \in {\h01, \h09, \h21, \h29, \h31} -> AluToRm(o, w, flags)
    [] op \in {\h03, \h0b, \h23, \h2b, \h33} -> AluFromRm(o, w, flags)
    [] op = \h89 -> MovToRm(o, w, flags)
    [] op = \h8b -> MovFromRm(o, w, flags)
    [] op = \h8d -> LeaArm(o, flags)
    [] op \in {\h69, \h6b} -> MulImm(op, o, code, w, flags)
    [] op \in {\h80, \h81, \h83} -> Group1(op, o, code, pos, w, flags)
    [] op = \h39 -> CmpRmReg(o, pos, w)
    [] op = \h3b -> CmpRegRm(o, pos, w)
    [] op = \h85 -> TestArm(o, w)
    [] op = \h63 -> MovsxdArm(o, flags)
    [] op = \h87 -> ExchangeArm(o, w, flags)
    [] op \in {\hc0, \hc1, \hd0, \hd1, \hd2, \hd3} -> ShiftArm(op, o, code, flags)
    [] op \in {\hf6, \hf7} -> Group3(op, o, code, w, flags)
    [] op \in {\hfe, \hff} -> Group5(op, o, w, flags)
    [] OTHER -> Failed

Opcode(op, code, p, pos, rex, w, flags) ==
  CASE op \in {\h90, \hc3, \hc9} -> PlainArm(op, p, flags)
    [] op \in \hb8..\hbf -> MovRegImm(op, code, p, rex, flags)
    [] op \in Accumulator -> AccumulatorArm(op, code, p, w, flags)
    [] op = \h3d -> CmpImm(code, p, w)
    [] op = \heb -> JmpArm(code, p, 1, flags)
    [] op = \he9 -> JmpArm(code, p, 4, flags)
    [] op = \he8 -> CallArm(code, p, flags)
    [] op \in \h70..\h7f -> JccArm(op, code, p, flags)
    [] op \in \h50..\h57 -> PushArm(p, rex, flags)
    [] op \in \h58..\h5f -> PopArm(op, p, rex, flags)
    [] op = \h68 -> PushImm(code, p, 4, flags)
    [] op = \h6a -> PushImm(code, p, 1, flags)
    [] op \in \h91..\h97 -> ExchangeRax(op, p, rex, flags)
    [] op \in {\h98, \h99} -> SignArm(op, p, flags)
    [] op \in {\hc6, \hc7} -> MovImmArm(op, code, p, rex, w, flags)
    [] op = \h0f -> IF Has(code, p, 1)
                    THEN decode_two_byte(Byte(code, p), rm_operand(code, p + 1, rex), code, p + 1,
                                         w, flags)
                    ELSE Failed
    [] OTHER -> RmArm(op, rm_operand(code, p, rex), code, pos, w, flags)

DecodeRex(code, pos, p, rex, flags) ==
  IF Has(code, p, 1)
  THEN Opcode(Byte(code, p), code, p + 1, pos, rex, IF rex.w = 1 THEN 64 ELSE 32, flags)
  ELSE Failed

Starts(code, p, bytes) == Has(code, p, Len(bytes)) /\ SubSeq(code, p + 1, p + Len(bytes)) = bytes

IsEndbr(code, p) == \E b \in {\hfa, \hfb} : Starts(code, p, <<\hf3, \h0f, \h1e, b>>)

NopOf(o, flags) == IF o.ok THEN Done(<<>>, o.next, flags) ELSE Failed

Unprefixed(code, p, flags) ==
  CASE IsEndbr(code, p) -> Done(<<>>, p + 4, flags)
    [] Starts(code, p, <<\h66, \h0f, \h1f>>) -> NopOf(rm_operand(code, p + 3, NoRex), flags)
    [] Has(code, p, 1) /\ IsRex(Byte(code, p)) -> DecodeRex(code, p, p + 1, Rex(Byte(code, p)), flags)
    [] OTHER -> DecodeRex(code, p, p, NoRex, flags)

\* A segment override: the access is to another address space, loads give an
\* unknown value and stores are dropped.
neutralize_segment_access(insts) ==
  LET Kept == SelectSeq(insts, LAMBDA i : i.op # "store")
  IN  [k \in 1..Len(Kept) |-> IF Kept[k].op = "load" THEN Assign(Kept[k].dst) ELSE Kept[k]]

\* The LOCK and segment prefixes in front of the instruction, in any number.
PrefixRun(code, pos, bytes) ==
  CHOOSE q \in pos..Len(code) :
    /\ \A i \in pos..(q - 1) : Byte(code, i) \in bytes
    /\ q = Len(code) \/ Byte(code, q) \notin bytes

\* Each LOCK puts a barrier in front, a segment override neutralises the accesses.
Behind(code, pos, q, d) ==
  LET At(bytes) == {i \in pos..(q - 1) : Byte(code, i) \in bytes}
      kept == IF At({\h64, \h65}) = {} THEN d.insts ELSE neutralize_segment_access(d.insts)
  IN  IF ~d.ok THEN d
      ELSE [d EXCEPT !.insts = [k \in 1..Cardinality(At({\hf0})) |-> Barrier] \o kept]

Prefixed(code, pos, q, flags) == Behind(code, pos, q, Unprefixed(code, q, flags))

decode_one(code, pos, flags) ==
  Prefixed(code, pos, PrefixRun(code, pos, {\hf0, \h64, \h65}), flags)

-----------------------------------------------------------------------------
(* The typed decoder, as far as the lowering uses it: for an instruction decode_one
   declines, bridge_unmodeled needs its length, whether it transfers control and
   whether it touches memory.  A typed instruction is therefore its end (next), its
   kind and whether an operand is a memory operand; which of the some 150
   instructions it is has no influence on anything else. *)

\* kind: "control" transfers control, "implicit" uses the stack or a string
\* register, "address" only computes an address, "plain" is the rest.
Typed(kind, mem, next) == [ok |-> TRUE, kind |-> kind, mem |-> mem, next |-> next]

Undecoded == [ok |-> FALSE, kind |-> "plain", mem |-> FALSE, next |-> 0]

\* n more bytes, if the code has them.
Trailing(code, p, n, kind, mem) == IF Has(code, p, n) THEN Typed(kind, mem, p + n) ELSE Undecoded

---------------------------------------------------------------------------
\* Prefixes: any run of legacy and REX prefixes; the last of each kind counts.

LegacyPrefixes == {\h66, \h67, \hf0, \hf2, \hf3, \h26, \h2e, \h36, \h3e, \h64, \h65}

PrefixBytes == LegacyPrefixes \cup (\h40..\h4f)

LastOf(code, pos, q, bytes) ==
  {i \in pos..(q - 1) : Byte(code, i) \in bytes /\ \A j \in (i + 1)..(q - 1) : Byte(code, j) \notin bytes}

RexAmong(code, last) == IF last = {} THEN NoRex ELSE Rex(Byte(code, CHOOSE i \in last : TRUE))

\* 0 none, 1 for 66, 2 for f3, 3 for f2.
MandatoryOf(b) == CASE b = \h66 -> 1 [] b = \hf3 -> 2 [] b = \hf2 -> 3

MandatoryAmong(code, last) ==
  IF last = {} THEN 0 ELSE MandatoryOf(Byte(code, CHOOSE i \in last : TRUE))

parse_prefixes(code, pos, q) ==
  [rex |-> RexAmong(code, LastOf(code, pos, q, \h40..\h4f)),
   pp  |-> MandatoryAmong(code, LastOf(code, pos, q, {\h66, \hf2, \hf3}))]

---------------------------------------------------------------------------
\* A typed memory operand must lie within the code, displacement included.
read_rm_operand(code, p, rex) ==
  LET o == rm_operand(code, p, rex) IN [o EXCEPT !.ok = o.ok /\ o.next <= Len(code)]

RmThen(o, code, n, kind) ==
  IF o.ok THEN Trailing(code, o.next, n, kind, o.mem) ELSE Undecoded

\* Instructions whose register form only is decoded.
RegisterOnly(o, kind) == IF o.ok /\ ~o.mem THEN Typed(kind, FALSE, o.next) ELSE Undecoded

\* <alu> r/m, r; mov r/m, r; mov r, r/m; lea.
TypedMove(op, o, code) ==
  CASE op # \h8d -> RmThen(o, code, 0, "plain")
    [] o.mem -> RmThen(o, code, 0, "address")
    [] OTHER -> Undecoded

\* The /digit of groups 1 and 2 is taken from the byte in front of the immediate,
\* which is the ModR/M byte of the register form only.
group1_op_from_modrm_reg(code, at) == Middle(Byte(code, at))

Behind1(t, code, n, digits) ==
  IF t.ok /\ group1_op_from_modrm_reg(code, t.next - n - 1) \in digits THEN t ELSE Undecoded

TypedGroup1(op, o, code) ==
  LET n == IF op = \h81 THEN 4 ELSE 1 IN Behind1(RmThen(o, code, n, "plain"), code, n, AluDigits)

\* cmp r/m, r; cmp r, r/m; test r/m, r.
TypedCompare(o) == RegisterOnly(o, "plain")

\* jmp and jcc by a displacement of n bytes.
TypedBranch(code, p, n) == Trailing(code, p, n, "control", FALSE)

\* push and pop of a register, push of an immediate.
TypedStack(op, code, p) ==
  Trailing(code, p, IF op = \h68 THEN 4 ELSE IF op = \h6a THEN 1 ELSE 0, "implicit", FALSE)

TypedExchange(o) == RegisterOnly(o, "plain")

TypedMovsxd(o, code) == RmThen(o, code, 0, "plain")

StringOps == (\ha4..\ha7) \cup (\haa..\haf)

\* int3; lahf, sahf, pushf, popf and the carry and direction flags.
FlagOps == {\h9e, \h9f, \hf5, \hf8, \hf9, \hfc, \hfd}

TypedFlags(op, p) ==
  CASE op = \hcc -> Typed("control", FALSE, p)
    [] op \in {\h9c, \h9d} -> Typed("implicit", FALSE, p)
    [] OTHER -> Typed("plain", FALSE, p)

TypedGroup5(op, o) ==
  CASE Digit(o.m) \in {0, 1} -> RegisterOnly(o, "plain")
    [] op = \hff /\ Digit(o.m) \in {2, 4} -> RegisterOnly(o, "control")
    [] OTHER -> Undecoded

TypedMovImm(op, o, code) == RmThen(o, code, IF op = \hc6 THEN 1 ELSE 4, "plain")

TypedShift(op, o, code) ==
  LET n == IF op \in {\hc0, \hc1} THEN 1 ELSE 0
  IN  Behind1(RmThen(o, code, n, "plain"), code, n, (0..5) \cup {7})

TypedGroup3(op, o, code, rex) ==
  CASE ~o.ok \/ o.mem \/ Digit(o.m) = 1 -> Undecoded
    [] Digit(o.m) = 0 ->
         Trailing(code, o.next, IF op = \hf6 THEN 1 ELSE IF rex.w = 1 THEN 8 ELSE 4, "plain", FALSE)
    [] OTHER -> Typed("plain", FALSE, o.next)

\* The opcodes with a ModR/M byte, and the ones without.
TypedRm(op, o, code, rex) ==
  CASE op \in {\h01, \h09, \h21, \h29, \h31, \h89, \h8b, \h8d} -> TypedMove(op, o, code)
    [] op \in \h80..\h83 -> TypedGroup1(op, o, code)
    [] op \in {\h39, \h3b, \h85} -> TypedCompare(o)
    [] op = \h87 -> TypedExchange(o)
    [] op = \h63 -> TypedMovsxd(o, code)
    [] op \in {\hfe, \hff} -> TypedGroup5(op, o)
    [] op \in {\hc6, \hc7} -> TypedMovImm(op, o, code)
    [] op \in {\hc0, \hc1, \hd0, \hd1} -> TypedShift(op, o, code)
    [] op \in {\hf6, \hf7} -> TypedGroup3(op, o, code, rex)
    [] OTHER -> Undecoded

TypedPlain(op, code, p, rex) ==
  CASE op = \h90 \/ op \in \h91..\h99 -> Typed("plain", FALSE, p)
    [] op = \hc3 -> Typed("control", FALSE, p)
    [] op \in \hb8..\hbf -> Trailing(code, p, IF rex.w = 1 THEN 8 ELSE 4, "plain", FALSE)
    [] op = \h3d -> Trailing(code, p, 4, "plain", FALSE)
    [] op \in {\heb} \cup (\h70..\h7f) -> TypedBranch(code, p, 1)
    [] op \in {\he8, \he9} -> TypedBranch(code, p, 4)
    [] op \in {\h68, \h6a} \cup (\h50..\h5f) -> TypedStack(op, code, p)
    [] op \in StringOps -> Typed("implicit", FALSE, p)
    [] op \in FlagOps \cup {\h9c, \h9d, \hcc} -> TypedFlags(op, p)

TypedPlainOps ==
  {\h3d, \h68, \h6a, \h9c, \h9d, \hc3, \hcc, \he8, \he9, \heb} \cup FlagOps \cup StringOps
    \cup (\h50..\h5f) \cup (\h70..\h7f) \cup (\h90..\h99) \cup (\hb8..\hbf)

---------------------------------------------------------------------------
\* SSE and VEX.

\* The mandatory prefixes each 0f opcode is defined for.
SseIntegerOps == {\hd4, \hdb, \heb, \hef, \hfb}

SsePrefixes(op) ==
  CASE op \in {\h10, \h11, \h51, \h58, \h59, \h5c, \h5d, \h5e, \h5f, \hc2} -> 0..3
    [] op \in {\h28, \h29, \h2e, \h2f, \h54, \h55, \h56, \h57, \h14, \h15, \hc6} -> {0, 1}
    [] op = \h5b -> {0, 1, 2}
    [] op \in SseIntegerOps -> {1}
    [] OTHER -> {}

decode_sse_0f_op(op, o, code, pp) ==
  IF pp \in SsePrefixes(op) THEN RmThen(o, code, IF op \in {\hc2, \hc6} THEN 1 ELSE 0, "plain")
  ELSE Undecoded

Vex0f38Ops ==
  (\h00..\h03) \cup (\h1c..\h1e) \cup (\h20..\h25) \cup {\h28, \h29} \cup (\h30..\h35)
    \cup (\h37..\h41)

Vex0f3aOps == (\h08..\h0b) \cup {\h0f, \h14, \h16, \h20, \h22}

VexOpcode(map, op, o, code, pp) ==
  CASE map = 1 -> decode_sse_0f_op(op, o, code, pp)
    [] map = 2 /\ op \in Vex0f38Ops /\ pp = 1 -> RmThen(o, code, 0, "plain")
    [] map = 3 /\ op \in Vex0f3aOps /\ pp = 1 -> RmThen(o, code, 1, "plain")
    [] OTHER -> Undecoded

\* c5 has one payload byte and implies the 0f map, c4 has two; the extension bits
\* do not matter to the operand's length.
decode_vex(code, p) ==
  LET n == IF Byte(code, p) = \hc5 THEN 1 ELSE 2 IN
  IF ~Has(code, p + 1, n + 1) THEN Undecoded
  ELSE VexOpcode(IF n = 1 THEN 1 ELSE Byte(code, p + 1) % 32, Byte(code, p + 1 + n),
                 read_rm_operand(code, p + 2 + n, NoRex), code, Byte(code, p + n) % 4)

\* A byte or a word is extended; the first or last set bit is found.
decode_movzx(o, code) == RmThen(o, code, 0, "plain")

decode_movsx(o, code) == RmThen(o, code, 0, "plain")

decode_bsf_bsr(o, code) == RmThen(o, code, 0, "plain")

TypedTwoByte(op2, o, code, p, pp) ==
  CASE op2 = \h05 -> Typed("control", FALSE, p)
    [] op2 \in \h80..\h8f -> Trailing(code, p, 4, "control", FALSE)
    [] op2 = \h1f -> RmThen(o, code, 0, "address")
    [] op2 \in (\h40..\h4f) \cup (\h90..\h9f) \cup BitOps -> RmThen(o, code, 0, "plain")
    [] op2 \in {\hb6, \hb7} -> decode_movzx(o, code)
    [] op2 \in {\hbe, \hbf} -> decode_movsx(o, code)
    [] op2 \in {\hbc, \hbd} -> decode_bsf_bsr(o, code)
    [] OTHER -> decode_sse_0f_op(op2, o, code, pp)

---------------------------------------------------------------------------
decode_typed_opcode(op, code, p, rex, pp) ==
  CASE op = \h0f ->
         IF Has(code, p, 1)
         THEN TypedTwoByte(Byte(code, p), read_rm_operand(code, p + 1, rex), code, p + 1, pp)
         ELSE Undecoded
    [] op \in TypedPlainOps -> TypedPlain(op, code, p, rex)
    [] OTHER -> TypedRm(op, read_rm_operand(code, p, rex), code, rex)

DecodeBehind(code, p, prefixes) ==
  CASE ~Has(code, p, 1) -> Undecoded
    [] Byte(code, p) \in {\hc4, \hc5} -> decode_vex(code, p)
    [] OTHER -> decode_typed_opcode(Byte(code, p), code, p + 1, prefixes.rex, prefixes.pp)

TypedAt(code, pos, q) == DecodeBehind(code, q, parse_prefixes(code, pos, q))

decode_instruction(code, pos) == TypedAt(code, pos, PrefixRun(code, pos, PrefixBytes))

---------------------------------------------------------------------------
\* The fallback for what decode_one declines.

is_control_flow(t) == t.kind = "control"

\* Wrong variant: an instruction is bridged although one of its explicit operands
\* is in memory.
Muttouches_memory(t) == t.kind = "implicit"

touches_memory(t) == t.kind = "implicit" \/ (t.kind # "address" /\ t.mem)

HavocAll == [k \in 1..17 |-> IF k = 1 THEN Inst("call", -1, NoMem.addr, 0) ELSE Assign(k - 2)]

Bridged(t, flags) ==
  IF t.ok /\ ~is_control_flow(t) /\ ~touches_memory(t) THEN Done(HavocAll, t.next, flags)
  ELSE Failed

bridge_unmodeled(code, pos, flags) == Bridged(decode_instruction(code, pos), flags)

\* decode_cfg's use of the two decoders.
DecodeAt(code, pos, flags) ==
  LET d == decode_one(code, pos, flags) IN IF d.ok THEN d ELSE bridge_unmodeled(code, pos, flags)
=============================================================================
