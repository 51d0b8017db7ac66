------------------------------- MODULE X86Cfg ------------------------------
(***************************************************************************)
(* Recovery of a function's control-flow graph from its bytes (x86.rs      *)
(* decode_cfg, blocks.rs), and the processor executing those bytes beside  *)
(* the graph that was recovered.                                           *)
(*                                                                         *)
(* decode_cfg keeps a stack of offsets to decode from.  Each run of        *)
(* straight-line decoding starts without flags, ends at an offset already  *)
(* decoded, at the end of the code or at a jump or return, and pushes the  *)
(* targets of the branches it meets.  Anything neither decoder accepts     *)
(* makes the whole function unanalysed.  build_blocks then cuts the        *)
(* decoded instructions into blocks.                                       *)
(*                                                                         *)
(* Once the blocks are built, a processor runs the function from its entry *)
(* along any path; `at` follows in the graph.  The recovered function says *)
(* the truth about the code when the two never part, when the graph's      *)
(* instructions make every access and define every register the machine's  *)
(* do, and when a branch the graph calls exact tests the machine's flags.  *)
(***************************************************************************)
EXTENDS X86Decode, FiniteSetsExt

CONSTANT Programs  \* the functions, each a sequence of bytes

VARIABLES
  code,     \* the function's bytes
  phase,    \* "pick", "run", "built", "unanalyzed"
  work,     \* offsets still to be decoded from
  pos,      \* the current run's position
  flags,    \* the comparison known in this run
  decoded,  \* the decoded instructions by offset
  blocks,   \* the blocks by leader
  pc,       \* the processor: its position, -1 once it has left
  compared, \* the processor: the comparison its flags hold
  at        \* the position in the graph: leader and index

decoding == <<work, pos, flags, decoded>>

machine == <<pc, compared, at>>

vars == <<code, phase, work, pos, flags, decoded, blocks, pc, compared, at>>

Cpu == INSTANCE X86Isa

NoComparison == [kind |-> "other", a |-> RegOperand(0), b |-> RegOperand(0)]

Init ==
  /\ code \in Programs
  /\ phase = "pick"
  /\ work = <<0>>
  /\ pos = 0
  /\ flags = NoFlags
  /\ decoded = <<>>
  /\ blocks = <<>>
  /\ pc = -1
  /\ compared = NoComparison
  /\ at = [leader |-> 0, index |-> 1]

---------------------------------------------------------------------------
\* decode_cfg


StartRun ==
  /\ phase = "pick" /\ work # <<>>
  /\ pos' = work[Len(work)]
  /\ work' = SubSeq(work, 1, Len(work) - 1)
  /\ flags' = NoFlags
  /\ phase' = "run"
  /\ UNCHANGED <<code, decoded, blocks, machine>>

RunEnds == pos >= Len(code) \/ pos \in DOMAIN decoded

EndRun ==
  /\ phase = "run" /\ RunEnds
  /\ phase' = "pick"
  /\ UNCHANGED <<code, decoding, blocks, machine>>

Took(d) ==
  /\ decoded' = [o \in DOMAIN decoded \cup {pos} |-> IF o = pos THEN d ELSE decoded[o]]
  /\ flags' = d.flags
  /\ work' = IF d.ctrl.kind \in {"jmp", "jcc"} THEN Append(work, d.ctrl.target) ELSE work
  /\ pos' = IF d.ctrl.kind \in {"fall", "jcc"} THEN d.next ELSE pos
  /\ phase' = IF d.ctrl.kind \in {"ret", "jmp"} THEN "pick" ELSE "run"

DecodeStep ==
  /\ phase = "run" /\ ~RunEnds
  /\ \E d \in {DecodeAt(code, pos, flags)} : d.ok /\ Took(d)
  /\ UNCHANGED <<code, blocks, machine>>

Decline ==
  /\ phase = "run" /\ ~RunEnds
  /\ ~DecodeAt(code, pos, flags).ok
  /\ phase' = "unanalyzed"
  /\ UNCHANGED <<code, decoding, blocks, machine>>

---------------------------------------------------------------------------
\* build_blocks

BranchTargets == {decoded[o].ctrl.target : o \in {p \in DOMAIN decoded : decoded[p].ctrl.kind \in {"jmp", "jcc"}}}

\* Wrong variant: the instruction behind a conditional branch opens no block.
MutLeaders ==
  ({Min(DOMAIN decoded)} \cup BranchTargets
     \cup {decoded[o].next : o \in {p \in DOMAIN decoded : decoded[p].ctrl.kind \in {"jmp", "ret"}}})
  \cap DOMAIN decoded

Leaders ==
  ({Min(DOMAIN decoded)} \cup BranchTargets
     \cup {decoded[o].next : o \in {p \in DOMAIN decoded : decoded[p].ctrl.kind # "fall"}})
  \cap DOMAIN decoded

Members(leaders, l) == {o \in DOMAIN decoded : Max({m \in leaders : m <= o}) = l}

Ascending(offsets) == [k \in 1..Cardinality(offsets) |-> CHOOSE o \in offsets : Cardinality({p \in offsets : p < o}) = k - 1]

\* The instructions that end their block: nothing decoded follows, or a leader does.
Ends(leaders, o) == decoded[o].next \notin DOMAIN decoded \/ decoded[o].next \in leaders

Term(kind, then, other) == [kind |-> kind, then |-> then, other |-> other]

terminator_for(d) ==
  CASE d.ctrl.kind = "ret" -> Term("return", 0, 0)
    [] d.ctrl.kind = "jmp" -> Term("br", d.ctrl.target, 0)
    [] d.ctrl.kind = "jcc" -> Term("cond", d.ctrl.target, d.next)
    [] d.ctrl.kind = "fall" -> Term("br", d.next, 0)

\* The last instruction that ends the block decides; a block without one returns.
BlockTerm(ends) ==
  IF ends = {} THEN Term("return", 0, 0) ELSE terminator_for(decoded[Max(ends)])

Block(leaders, members) ==
  [insts |-> Ascending(members), term |-> BlockTerm({o \in members : Ends(leaders, o)})]

Targets(t) == CASE t.kind = "return" -> {} [] t.kind = "br" -> {t.then} [] t.kind = "cond" -> {t.then, t.other}

\* A branch to an offset that was not decoded, or a dangling fall-through.
Unbuildable(leaders) ==
  \/ ~(BranchTargets \subseteq DOMAIN decoded)
  \/ \E o \in DOMAIN decoded :
       Ends(leaders, o) /\ ~(Targets(terminator_for(decoded[o])) \subseteq leaders)

build_blocks(leaders) == [l \in leaders |-> Block(leaders, Members(leaders, l))]

EmptyBody == [l \in {0} |-> [insts |-> <<>>, term |-> Term("return", 0, 0)]]

Build ==
  /\ phase = "pick" /\ work = <<>>
  /\ \/ decoded = <<>> /\ blocks' = EmptyBody /\ phase' = "built" /\ UNCHANGED pc
     \/ decoded # <<>> /\ Unbuildable(Leaders) /\ phase' = "unanalyzed" /\ UNCHANGED <<blocks, pc>>
     \/ /\ decoded # <<>> /\ ~Unbuildable(Leaders)
        /\ blocks' = build_blocks(Leaders)
        /\ phase' = "built"
        /\ pc' = 0
  /\ UNCHANGED <<code, decoding, compared, at>>

---------------------------------------------------------------------------
\* The processor runs; the graph follows.

AtBlock == blocks[at.leader]

AtInst == IF at.index \in 1..Len(AtBlock.insts) THEN AtBlock.insts[at.index] ELSE -1

\* Where the graph goes when the processor continues at `to`.
Followed(to) ==
  CASE at.index < Len(AtBlock.insts) -> [at EXCEPT !.index = at.index + 1]
    [] AtBlock.term.kind = "br" -> [leader |-> AtBlock.term.then, index |-> 1]
    [] AtBlock.term.kind = "cond" ->
         [leader |-> IF to = AtBlock.term.then THEN to ELSE AtBlock.term.other, index |-> 1]
    [] OTHER -> [leader |-> at.leader, index |-> 0]

Uses(operand, writes) == operand.kind = "reg" /\ operand.v \in writes

\* The comparison held by the flags; overwriting a compared register makes it one
\* about values no register holds any more.
NextComparison(i) ==
  CASE i.flags.kind # "keep" -> i.flags
    [] Uses(compared.a, i.writes) \/ Uses(compared.b, i.writes) -> NoComparison
    [] OTHER -> compared

Machine(i) ==
  \/ /\ i.succ = {} /\ pc' = -1
     /\ UNCHANGED <<compared, at>>
  \/ \E to \in i.succ :
       /\ pc' = to
       /\ at' = Followed(to)
       /\ compared' = NextComparison(i)

Execute ==
  /\ phase = "built" /\ pc # -1 /\ AtInst = pc
  /\ \E i \in {Cpu!Isa(code, pc)} : Machine(i)
  /\ UNCHANGED <<code, phase, decoding, blocks>>

Next == StartRun \/ EndRun \/ DecodeStep \/ Decline \/ Build \/ Execute

Spec == Init /\ [][Next]_vars

---------------------------------------------------------------------------
\* Properties.

Executing == phase = "built" /\ pc # -1

Accesses(insts) ==
  {[op |-> insts[k].op, addr |-> insts[k].addr, bits |-> insts[k].bits] :
     k \in {j \in 1..Len(insts) : insts[j].op \in {"load", "store"}}}

Defined(insts) == {insts[k].dst : k \in 1..Len(insts)}

\* However the processor runs the function, the recovered graph has the same
\* path: every instruction it executes is the instruction the graph is at.  The
\* decoders agree with the machine about instruction boundaries and branch
\* targets, and build_blocks loses no edge.
PathsKept == Executing => AtInst = pc

\* No instruction the machine executes loses an effect in the translation: the
\* access of its memory operand is made by the MSIR, at the same address and
\* width, and every register it writes is defined.  This is what makes it sound
\* to bridge an instruction the lowering does not know.
EffectsKept ==
  Executing /\ AtInst = pc =>
    LET i == Cpu!Isa(code, pc)
        d == decoded[pc].insts
    IN  i.acc \subseteq Accesses(d) /\ i.writes \subseteq Defined(d)

\* The instructions in the straight line in front of a branch whose lowering records
\* a comparison, and the ones between the last of them and the branch.
Recorders(o) ==
  {p \in DOMAIN decoded :
     /\ p < o /\ DecodeAt(code, p, NoFlags).flags.known
     /\ \A q \in DOMAIN decoded : p <= q /\ q < o => decoded[q].ctrl.kind \in {"fall", "jcc"}}

Between(o) == {q \in DOMAIN decoded : Max(Recorders(o)) < q /\ q < o}

\* The condition's operands are the two the machine compared by subtraction, or a
\* register it tested against itself and zero.
Tests(cond) ==
  \/ compared.kind = "sub" /\ cond.a = compared.a /\ cond.b = compared.b
  \/ compared.kind = "and" /\ compared.a = compared.b /\ cond.a = compared.a /\ cond.b = SignedImm(0)

\* Four ways in which x86.rs:85-88 ("a `cmp; jcc` pair is always in one run (adjacent),
\* so the condition stays exact; a block entered via a jump conservatively starts with
\* no flags") is not what the lowering does.

\* `test r, imm` is recorded like a comparison (lower.rs:231-234, 842-847).
TestedImmediate(cond) ==
  compared.kind = "and" /\ compared.b.kind = "imm" /\ cond.a = compared.a /\ cond.b.v = compared.b.v

\* The immediate of a 64-bit `cmp rax, imm32` is not sign-extended (lower.rs:406-409).
ZeroExtended(cond) ==
  compared.kind = "sub" /\ cond.a = compared.a /\ cond.b = Operand("zext", compared.b.v)

\* Between the comparison and the branch something changes the flags or a compared
\* register; only cmp and test touch what was recorded.
Disturbed(o, cond) ==
  \E i \in {Cpu!Isa(code, q) : q \in Between(o)} :
    i.flags.kind # "keep" \/ Uses(cond.a, i.writes) \/ Uses(cond.b, i.writes)

\* A jump enters behind the comparison, at code the run of the comparison decoded.
Entered(o) == (Between(o) \cup {o}) \cap BranchTargets # {}


=============================================================================
