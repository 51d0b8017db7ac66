------------------------------- MODULE MCX86 -------------------------------
(***************************************************************************)
(* Instances of X86Cfg.  `AllEncodings` is one instruction of every opcode *)
(* of the one-byte and the 0f map, behind each prefix and with each kind   *)
(* of operand, followed by nops and a return, without the encodings the    *)
(* front end is known to get wrong (`Misread`).  `Flows` is every function *)
(* of four pieces (loads, returns, jumps, comparisons with their branch)   *)
(* in which a conditional branch follows its comparison.  `Guarded` is     *)
(* every comparison the lowering records with what may stand between it    *)
(* and its branch.                                                         *)
(***************************************************************************)
EXTENDS X86Cfg

Pad == [k \in 1..9 |-> \h90] \o <<\hc3>>

\* A register, [rcx], [rdx + 8], [rax + rcx*2 + 8], a global, [rbx + disp32].
Operands(reg) ==
  {<<\hc1 + 8 * reg>>, <<\h01 + 8 * reg>>, <<\h42 + 8 * reg, 8>>, <<\h44 + 8 * reg, \h48, 8>>,
   <<\h05 + 8 * reg, 0, 0, 0, 0>>, <<\h83 + 8 * reg, 4, 0, 0, 0>>}

\* Every opcode of the two maps; 0f, the prefixes and the undefined 62 and 82 are none.
OneByte == (0..255) \ ({\h0f, \hc4, \hc5, \h62, \h82} \cup (\h40..\h4f) \cup Cpu!Legacy)

TwoByte == 0..255

VexHeads == {<<\hc5, \hf9, \h58>>, <<\hc4, \he2, \h79, \h00>>, <<\hc4, \he3, \h79, \h0f>>,
             <<\hc4, \he3, \h79, \h16>>}

Heads == {<<o>> : o \in OneByte} \cup {<<\h0f, o>> : o \in TwoByte} \cup VexHeads

Leads == {<<>>, <<\h48>>, <<\h45>>, <<\h66>>, <<\hf0>>, <<\h65>>, <<\hf3>>, <<\hf2>>, <<\h66, \h48>>}

\* The opcodes that take a displacement only, and the ones without operand bytes.
Near == {<<o>> : o \in (\h70..\h7f) \cup {\heb}}

Far == {<<\he8>>, <<\he9>>} \cup {<<\h0f, o>> : o \in \h80..\h8f}

Bare == {<<o>> : o \in OneByte \cap Cpu!NoModRm1} \cup {<<\h0f, \h05>>, <<\h0f, \h0b>>}

\* Opcodes that use the register field of the ModR/M byte as part of the opcode.
Groups ==
  {<<o>> : o \in {\h80, \h81, \h83, \h8f, \hc0, \hc1, \hc6, \hc7, \hf6, \hf7, \hfe, \hff} \cup (\hd0..\hd3)}
    \cup {<<\h0f, o>> : o \in {\h00, \h01, \h18, \h1f, \hae, \hba, \hc7} \cup (\h71..\h73)}

AfterHead(h) ==
  CASE h \in Near -> {<<1>>} [] h \in Far -> {<<1, 0, 0, 0>>} [] h \in Bare -> {<<>>}
    [] h \in Groups -> UNION {Operands(r) : r \in 0..7}
    [] OTHER -> Operands(1)

Encodings == UNION {[lead : Leads, head : {h}, rm : AfterHead(h)] : h \in Heads}

Bytes(e) == e.lead \o e.head \o e.rm \o Pad

Valid(e) == e.head \in VexHeads => e.lead \in {<<>>, <<\h65>>}

InMemory(e) == e.rm # <<>> /\ Top(e.rm[1]) # 3

Field(e) == IF e.rm = <<>> THEN 0 ELSE (e.rm[1] \div 8) % 8

\* The encodings the front end is known to misread, one predicate a defect.

\* The typed decoder reads a four-byte immediate under an operand-size prefix.
WordImmediate(e) ==
  /\ \E k \in 1..Len(e.lead) : e.lead[k] = \h66
  /\ \/ e.head \in {<<o>> : o \in {\h3d, \h81, \hc7} \cup (\hb8..\hbf)}
     \/ e.head = <<\hf7>> /\ Field(e) = 0

\* The immediate of a mov to memory is read in front of the displacement.
StoredImmediate(e) == e.head \in {<<\hc6>>, <<\hc7>>} /\ InMemory(e) /\ Len(e.rm) > 1

\* The exchange with rax names the register below the encoded one.
ShortExchange(e) == e.head \in {<<o>> : o \in \h91..\h97}

\* Registers a call, a system call or `leave` changes are not forgotten.
Clobbers(e) == e.head \in {<<\he8>>, <<\h0f, \h05>>, <<\hc9>>} \/ (e.head = <<\hff>> /\ Field(e) = 2)

\* An indirect jump through memory reads four bytes of its eight-byte target.
IndirectJump(e) == e.head = <<\hff>> /\ Field(e) = 4 /\ InMemory(e)

Misread(e) ==
  WordImmediate(e) \/ StoredImmediate(e) \/ ShortExchange(e) \/ Clobbers(e) \/ IndirectJump(e)

AllEncodings == {Bytes(e) : e \in {x \in Encodings : Valid(x) /\ ~Misread(x)}}

\* mov [m], imm with a displacement or an index.
StoredImmediates ==
  {Bytes(e) : e \in {x \in Encodings : x.lead = <<>> /\ Field(x) = 0 /\ StoredImmediate(x)}}

---------------------------------------------------------------------------
\* Functions of four pieces.  A comparison and its conditional branch are one piece,
\* as compilers emit them; a lone conditional branch (a target several comparisons
\* share) stands only behind a jump or a return.  Every jump goes to the start of a
\* piece or to the end of the code.

Pieces ==
  [kind : {"load", "ret"}, to : {5}] \cup [kind : {"jump", "less"}, to : 1..5]
    \cup [kind : {"test"}, to : {4}] \cup [kind : {"lone"}, to : {5}]

PieceLen(p) ==
  CASE p.kind = "load" -> 3 [] p.kind = "ret" -> 1 [] p.kind \in {"jump", "lone"} -> 2
    [] p.kind \in {"test", "less"} -> 5

Start(f, k) == MapThenSumSet(LAMBDA i : PieceLen(f[i]), 1..(k - 1))

Rel8(f, k) == (Start(f, f[k].to) - Start(f, k + 1) + 256) % 256

Piece(f, k) ==
  CASE f[k].kind = "load" -> <<\h48, \h8b, \h01>>
    [] f[k].kind = "ret" -> <<\hc3>>
    [] f[k].kind = "jump" -> <<\heb, Rel8(f, k)>>
    [] f[k].kind = "lone" -> <<\h74, Rel8(f, k)>>
    [] f[k].kind = "test" -> <<\h48, \h85, \hc0, \h75, Rel8(f, k)>>
    [] f[k].kind = "less" -> <<\h48, \h39, \hd1, \h72, Rel8(f, k)>>

Shaped(f) ==
  /\ \A k \in 1..4 : f[k].kind = "lone" => k > 1 /\ f[k - 1].kind \in {"ret", "jump"}
  /\ f[4].kind \in {"load", "ret", "lone"} \/ f[4] = [kind |-> "jump", to |-> 1]

Assembled(f) == Piece(f, 1) \o Piece(f, 2) \o Piece(f, 3) \o Piece(f, 4)

\* With and without a return at the end, and the function without code.
Flows ==
  {Assembled(f) \o e : f \in {g \in [1..4 -> Pieces] : Shaped(g)}, e \in {<<>>, <<\hc3>>}} \cup {<<>>}

---------------------------------------------------------------------------
\* One comparison and one branch, with something or nothing between them, reached from
\* above only or by a jump to the branch, to the comparison or to what stands between.

\* cmp rcx, rdx; test rax, rax; test rax, rcx; cmp [rcx], rdx; cmp rax, [rcx];
\* cmp rcx, -1; cmp eax, -1; cmp rax, -1; cmp rax, 1; test al, 1; test eax, 1; test ecx, 1;
\* test cl, 1
Comparisons ==
  {<<\h48, \h39, \hd1>>, <<\h48, \h85, \hc0>>, <<\h48, \h85, \hc8>>, <<\h48, \h39, \h11>>,
   <<\h48, \h3b, \h01>>, <<\h48, \h83, \hf9, \hff>>, <<\h3d, \hff, \hff, \hff, \hff>>,
   <<\h48, \h3d, \hff, \hff, \hff, \hff>>, <<\h48, \h3d, 1, 0, 0, 0>>, <<\ha8, 1>>,
   <<\ha9, 1, 0, 0, 0>>, <<\hf7, \hc1, 1, 0, 0, 0>>, <<\hf6, \hc1, 1>>}

\* mov rax, [rcx]; mov rbx, rax; sub eax, 1; dec ecx; add rbx, rcx; sbb rax, rcx (bridged);
\* lea rdx, [rcx + 8]; jne to the end; cmp rcx, rdx
Fillers ==
  {<<>>, <<\h48, \h8b, \h01>>, <<\h48, \h89, \hc3>>, <<\h83, \he8, 1>>, <<\hff, \hc9>>,
   <<\h48, \h01, \hcb>>, <<\h48, \h19, \hc8>>, <<\h48, \h8d, \h51, 8>>, <<\h75, 2>>,
   <<\h48, \h39, \hd1>>}

Entrances(c, f) == {<<>>} \cup {<<\h74, n>> : n \in {0, Len(c), Len(c) + Len(f)}}

\* The branch is jb, jne or js; it skips a nop.
Guarded ==
  UNION {{e \o c \o f \o <<j, 1, \h90, \hc3>> : e \in Entrances(c, f), j \in {\h72, \h75, \h78}} :
           c \in Comparisons, f \in Fillers}

AllCode == AllEncodings \cup Flows \cup Guarded
=============================================================================
