--------------------------- MODULE AnsweringProofs ---------------------------
(***************************************************************************)
(* Theorems about the judging of atoms (InvariantVm).                      *)
(***************************************************************************)
EXTENDS InvariantVm, FoldLemmas

VmSpec == VmInit /\ [][VmNext]_vmvars

-----------------------------------------------------------------------------
(* The validation's forward pass.                                          *)

Passes == [reachable : SUBSET Nat, bad : BOOLEAN]

LEMMA MarkType ==
  ASSUME NEW p \in Seq(Instruction), NEW acc \in Passes, NEW i \in 0..(Len(p) - 1)
  PROVE  Mark(p, acc, i) \in Passes
<1>1. p[i + 1].b \in Nat /\ acc.reachable \subseteq Nat /\ acc.bad \in BOOLEAN /\ i + 1 \in Nat
  <2>1. i + 1 \in 1..Len(p) /\ p[i + 1] \in Instruction
    OBVIOUS
  <2> QED
    BY <2>1 DEF Passes, Instruction
<1>2. acc = [reachable |-> acc.reachable, bad |-> acc.bad]
  BY DEF Passes
<1> QED
  BY <1>1, <1>2 DEF Mark, Passes

(* The pass one address at a time.                                         *)
LEMMA PassChain ==
  ASSUME NEW p \in Seq(Instruction)
  PROVE  \E g : /\ g[0] = [reachable |-> {0}, bad |-> FALSE] /\ g[Len(p)] = ForwardPass(p)
                /\ \A k \in 1..Len(p) : g[k] = Mark(p, g[k - 1], k - 1)
                /\ \A k \in 0..Len(p) : g[k] \in Passes
<1> DEFINE n == Len(p)
           z == [reachable |-> {0}, bad |-> FALSE]
           w == [k \in 1..Len(p) |-> k - 1]
           G == [i \in 1..n |-> [q \in Passes |-> Mark(p, q, i - 1)]]
           Is(f) == f = [s \in SUBSET DOMAIN w |->
                           IF s = {} THEN z ELSE Mark(p, f[s \ {Max(s)}], w[Max(s)])]
<1>1. n \in Nat /\ DOMAIN w = 1..n /\ \A i \in 1..n : w[i] = i - 1 /\ i - 1 \in 0..(n - 1)
  OBVIOUS
<1>2. ForwardPass(p) = (CHOOSE f : Is(f))[DOMAIN w]
  BY DEF ForwardPass, FoldLeft, MapThenFoldSet
<1>3. z \in Passes
  BY DEF Passes
<1>4. \A i \in 1..n, q \in Passes : Mark(p, q, i - 1) \in Passes
  BY <1>1, MarkType
<1> HIDE DEF n, w, z
<1>5. G \in [1..n -> [Passes -> Passes]]
  BY <1>4
<1>6. \A i \in 1..n, q \in Passes : G[i][q] = Mark(p, q, i - 1)
  OBVIOUS
<1> HIDE DEF G
<1>7. PICK f \in [SUBSET (1..n) -> Passes] : Table(f, n, z, G)
  BY <1>1, <1>3, <1>5, TableExists
<1>8. ASSUME NEW s \in SUBSET (1..n)
      PROVE  f[s] = IF s = {} THEN z ELSE Mark(p, f[s \ {Max(s)}], w[Max(s)])
  <2>1. f[s] = IF s = {} THEN z ELSE G[Max(s)][f[s \ {Max(s)}]]
    BY <1>7 DEF Table
  <2>2. CASE s # {}
    <3>1. Max(s) \in s
      BY <1>1, <2>2, MaxOfSome
    <3>2. Max(s) \in 1..n /\ f[s \ {Max(s)}] \in Passes
      BY <1>7, <3>1
    <3>3. w[Max(s)] = Max(s) - 1
      BY <1>1, <3>2
    <3>4. G[Max(s)][f[s \ {Max(s)}]] = Mark(p, f[s \ {Max(s)}], Max(s) - 1)
      BY <1>6, <3>2
    <3> QED
      BY <2>1, <2>2, <3>3, <3>4
  <2> QED
    BY <2>1, <2>2
<1>9. Is(f)
  BY <1>1, <1>7, <1>8
<1> DEFINE c == CHOOSE g : Is(g)
<1>10. Is(c)
  BY <1>9
<1>11. ForwardPass(p) = c[1..n]
  BY <1>1, <1>2
<1> HIDE DEF c
<1>12. c[{}] = z
  BY <1>10
<1>13. PICK g : Reads(g, c, n)
  BY <1>1, Initials, Zenon
<1>14. \A s \in SUBSET (1..n) : s # {} => c[s] = Mark(p, c[s \ {Max(s)}], w[Max(s)])
  BY <1>1, <1>10
<1>15. ASSUME NEW k \in 1..n PROVE g[k] = Mark(p, g[k - 1], k - 1)
  <2>1. /\ g[k] = c[1..k] /\ g[k - 1] = c[(1..k) \ {k}]
        /\ 1..k \in SUBSET (1..n) /\ 1..k # {} /\ Max(1..k) = k
    BY <1>13, Zenon DEF Reads
  <2>2. c[1..k] = Mark(p, c[(1..k) \ {Max(1..k)}], w[Max(1..k)])
    BY <1>14, <2>1, Zenon
  <2>3. w[k] = k - 1
    BY <1>1
  <2> QED
    BY <2>1, <2>2, <2>3, Zenon
<1>16. g[0] = c[{}] /\ g[n] = c[1..n]
  BY <1>13, Zenon DEF Reads
<1>17. \A k \in 0..n : g[k] \in Passes
  <2> DEFINE T == {k \in 0..n : g[k] \in Passes}
  <2>1. 0 \in T
    BY <1>1, <1>3, <1>12, <1>16
  <2>2. ASSUME NEW k \in 1..n, k - 1 \in T PROVE k \in T
    BY <1>1, <1>4, <1>15, <2>2
  <2> HIDE DEF T
  <2>3. \A k \in 0..n : k \in T
    BY <1>1, <2>1, <2>2, Climb
  <2> QED
    BY <2>3 DEF T
<1> QED
  BY <1>11, <1>12, <1>15, <1>16, <1>17 DEF n, z

(* A program whose jumps lead only forward.                                *)
Forward(p) == \A k \in 1..Len(p) :
                /\ p[k].op \notin {"JNZ", "CALL"}
                /\ p[k].op \in {"JZ", "JMP"} => p[k].b >= k

(* What the pass marks is never behind it, so every reachable address is   *)
(* visited and its successors are reachable, inside the program.           *)
Follows(p, R) ==
    /\ 0 \in R /\ R \subseteq Nat
    /\ \A i \in R : i < Len(p) =>
         /\ p[i + 1].op \in {"JZ", "JMP"} => p[i + 1].b < Len(p) /\ p[i + 1].b \in R
         /\ p[i + 1].op \notin {"RET", "JMP"} /\ i + 1 < Len(p) => i + 1 \in R

LEMMA PassFollows ==
  ASSUME NEW p \in Seq(Instruction), Forward(p), ~ForwardPass(p).bad
  PROVE  Follows(p, ForwardPass(p).reachable)
<1> DEFINE n == Len(p)
           R == ForwardPass(p).reachable
<1>1. n \in Nat /\ \A i \in 0..(n - 1) : i + 1 \in 1..n /\ p[i + 1] \in Instruction
  OBVIOUS
<1>2. PICK g : /\ g[0] = [reachable |-> {0}, bad |-> FALSE] /\ g[n] = ForwardPass(p)
               /\ \A k \in 1..n : g[k] = Mark(p, g[k - 1], k - 1)
               /\ \A k \in 0..n : g[k] \in Passes
  BY PassChain
<1> HIDE DEF n
<1>3. \A k \in 0..n : /\ g[k].reachable \subseteq Nat /\ g[k].bad \in BOOLEAN
                      /\ g[k] = [reachable |-> g[k].reachable, bad |-> g[k].bad]
  BY <1>2 DEF Passes
<1>4. ASSUME NEW i \in 0..(n - 1)
      PROVE  /\ g[i].reachable \subseteq g[i + 1].reachable /\ (g[i].bad => g[i + 1].bad)
             /\ \A j \in g[i + 1].reachable : j \in g[i].reachable \/ j > i
             /\ i \in g[i].reachable /\ ~g[i + 1].bad =>
                  /\ p[i + 1].op \in {"JZ", "JMP"} => p[i + 1].b < n /\ p[i + 1].b \in g[i + 1].reachable
                  /\ p[i + 1].op \notin {"RET", "JMP"} /\ i + 1 < n => i + 1 \in g[i + 1].reachable
  <2>1. PICK a : a = g[i]
    OBVIOUS
  <2>2. PICK c : c = p[i + 1]
    OBVIOUS
  <2>3. i + 1 \in 1..n /\ (i + 1) - 1 = i /\ i \in 0..n
    BY <1>1
  <2>4. g[i + 1] = Mark(p, a, i)
    BY <1>2, <2>1, <2>3
  <2>5. /\ a = [reachable |-> a.reachable, bad |-> a.bad] /\ a.reachable \subseteq Nat /\ a.bad \in BOOLEAN
    BY <1>3, <2>1, <2>3
  <2>6. c.b \in Nat /\ (c.op \in {"JZ", "JMP"} => c.b >= i + 1)
    BY <1>1, <2>2, <2>3 DEF Forward, Instruction, n
  <2>7. CASE a.bad \/ i \notin a.reachable
    <3>1. g[i + 1] = a
      BY <2>4, <2>7 DEF Mark
    <3> QED
      BY <2>1, <2>5, <2>7, <3>1
  <2>8. CASE ~a.bad /\ i \in a.reachable /\ c.op \in {"JZ", "JMP"} /\ c.b >= n
    <3>1. g[i + 1] = [a EXCEPT !.bad = TRUE]
      BY <2>2, <2>4, <2>8 DEF Mark, n
    <3>2. g[i + 1].bad /\ g[i + 1].reachable = a.reachable
      BY <2>5, <3>1
    <3> QED
      BY <2>1, <3>2
  <2>9. CASE ~a.bad /\ i \in a.reachable /\ ~(c.op \in {"JZ", "JMP"} /\ c.b >= n)
    <3> DEFINE J == IF c.op \in {"JZ", "JMP"} THEN {c.b} ELSE {}
               N == IF c.op \notin {"RET", "JMP"} /\ i + 1 < n THEN {i + 1} ELSE {}
    <3>1. g[i + 1] = [a EXCEPT !.reachable = (@ \cup J) \cup N]
      BY <2>2, <2>4, <2>9 DEF Mark, n
    <3>2. g[i + 1].bad = a.bad /\ g[i + 1].reachable = (a.reachable \cup J) \cup N
      BY <2>5, <3>1
    <3>3. \A j \in J \cup N : j > i
      BY <2>6
    <3>4. /\ c.op \in {"JZ", "JMP"} => c.b < n /\ c.b \in J
          /\ c.op \notin {"RET", "JMP"} /\ i + 1 < n => i + 1 \in N
      BY <1>1, <2>6, <2>9
    <3> HIDE DEF J, N
    <3> QED
      BY <2>1, <2>2, <3>2, <3>3, <3>4
  <2> QED
    BY <2>7, <2>8, <2>9
<1>5. ASSUME NEW m \in 0..n
      PROVE  g[m].reachable \subseteq R /\ (g[m].bad => ForwardPass(p).bad)
  <2> DEFINE T == {k \in 0..n : k >= m => g[m].reachable \subseteq g[k].reachable /\ (g[m].bad => g[k].bad)}
  <2>1. 0 \in T
    <3>1. 0 >= m => m = 0
      OBVIOUS
    <3> QED
      BY <1>1, <3>1
  <2>2. ASSUME NEW k \in 1..n, k - 1 \in T PROVE k \in T
    <3>1. k - 1 \in 0..(n - 1) /\ (k - 1) + 1 = k /\ k \in 0..n
      BY <1>1
    <3>2. g[k - 1].reachable \subseteq g[k].reachable /\ (g[k - 1].bad => g[k].bad)
      BY <1>4, <3>1
    <3>3. k >= m => k = m \/ k - 1 >= m
      BY <1>1
    <3> QED
      BY <2>2, <3>1, <3>2, <3>3
  <2> HIDE DEF T
  <2>3. \A k \in 0..n : k \in T
    BY <1>1, <2>1, <2>2, Climb
  <2>4. n \in T /\ n >= m
    BY <1>1, <2>3
  <2> QED
    BY <1>2, <2>4 DEF T
<1>6. ASSUME NEW i \in 0..(n - 1), i \in R PROVE i \in g[i].reachable
  <2> DEFINE T == {k \in 0..n : i \in g[k].reachable => k <= i \/ i \in g[i].reachable}
  <2>1. 0 \in T
    BY <1>1
  <2>2. ASSUME NEW k \in 1..n, k - 1 \in T PROVE k \in T
    <3>1. k - 1 \in 0..(n - 1) /\ (k - 1) + 1 = k /\ k \in 0..n
      BY <1>1
    <3>2. i \in g[k].reachable => i \in g[k - 1].reachable \/ i > k - 1
      BY <1>4, <3>1
    <3>3. i > k - 1 => k <= i
      BY <1>1
    <3>4. k - 1 <= i => k <= i \/ k - 1 = i
      BY <1>1
    <3> QED
      BY <2>2, <3>1, <3>2, <3>3, <3>4
  <2> HIDE DEF T
  <2>3. \A k \in 0..n : k \in T
    BY <1>1, <2>1, <2>2, Climb
  <2>4. n \in T /\ ~(n <= i)
    BY <1>1, <2>3
  <2> QED
    BY <1>2, <1>6, <2>4 DEF T
<1>7. 0 \in R /\ R \subseteq Nat
  <2>1. 0 \in 0..n /\ n \in 0..n /\ 0 \in g[0].reachable
    BY <1>1, <1>2
  <2> QED
    BY <1>2, <1>3, <1>5, <2>1
<1>8. ASSUME NEW i \in R, i < n
      PROVE  /\ p[i + 1].op \in {"JZ", "JMP"} => p[i + 1].b < n /\ p[i + 1].b \in R
             /\ p[i + 1].op \notin {"RET", "JMP"} /\ i + 1 < n => i + 1 \in R
  <2>1. i \in 0..(n - 1) /\ i + 1 \in 0..n
    BY <1>1, <1>7, <1>8
  <2>2. i \in g[i].reachable /\ ~g[i + 1].bad /\ g[i + 1].reachable \subseteq R
    BY <1>5, <1>6, <2>1
  <2> HIDE DEF R
  <2> QED
    BY <1>4, <2>1, <2>2
<1> QED
  BY <1>7, <1>8 DEF Follows, n

-----------------------------------------------------------------------------
(* One instruction.                                                        *)

(* What every outcome of an instruction keeps to.                          *)
Fine(o, i) ==
    /\ o.flow \in {"continue", "halt", "panic", "jump"}
    /\ o.flow = "jump" => i.op \in {"JZ", "JMP", "JNZ", "CALL"} /\ o.to = i.b
    /\ i.op = "JMP" => o.flow = "jump"
    /\ i.op = "RET" => o.flow = "halt"
    /\ o.result \in 0..3 /\ o.reason # "CORRUPT_SECTION"

LEMMA OutcomeShapes ==
  ASSUME result \in 0..3, reason # "CORRUPT_SECTION", NEW i
  PROVE  /\ \A rs : i.op \notin {"JMP", "RET"} => Fine(Next1(rs), i)
         /\ i.op \notin {"JMP", "RET"} => Fine(Panic, i)
         /\ \A v : i.op \notin {"JMP", "RET"} => \A o \in Set(i, v) : Fine(o, i)
         /\ \A rs : i.op \in {"JZ", "JMP", "JNZ", "CALL"} => Fine(Jump(i.b, rs), i)
         /\ \A why : \A res \in 0..3 : why # "CORRUPT_SECTION" /\ i.op # "JMP" => Fine(Halt(res, why), i)
<1>1. \A rs : /\ Next1(rs).flow = "continue" /\ Next1(rs).result = result /\ Next1(rs).reason = reason
  BY DEF Next1
<1>2. Panic.flow = "panic" /\ Panic.result = result /\ Panic.reason = reason
  BY DEF Next1, Panic
<1>3. \A t, rs : /\ Jump(t, rs).flow = "jump" /\ Jump(t, rs).to = t
                 /\ Jump(t, rs).result = result /\ Jump(t, rs).reason = reason
  BY DEF Next1, Jump
<1>4. \A res, why : /\ Halt(res, why).flow = "halt"
                    /\ Halt(res, why).result = res /\ Halt(res, why).reason = why
  BY DEF Next1, Halt
<1>5. \A v : \A o \in Set(i, v) : \E rs : o = Next1(rs)
  BY DEF Set
<1> QED
  BY <1>1, <1>2, <1>3, <1>4, <1>5 DEF Fine

LEMMA OutcomesFine ==
  ASSUME result \in 0..3, reason # "CORRUPT_SECTION", NEW i \in Instruction,
         NEW o \in execute_instruction(i)
  PROVE  Fine(o, i)
<1>1. /\ \A rs : i.op \notin {"JMP", "RET"} => Fine(Next1(rs), i)
      /\ i.op \notin {"JMP", "RET"} => Fine(Panic, i)
      /\ \A v : i.op \notin {"JMP", "RET"} => \A q \in Set(i, v) : Fine(q, i)
      /\ \A rs : i.op \in {"JZ", "JMP", "JNZ", "CALL"} => Fine(Jump(i.b, rs), i)
      /\ \A why : \A res \in 0..3 : why # "CORRUPT_SECTION" /\ i.op # "JMP" => Fine(Halt(res, why), i)
  BY OutcomeShapes
<1>2. 0 \in 0..3 /\ FAIL_HARD \in 0..3 /\ NEED_BRANCH \in 0..3
  BY DEF FAIL_HARD, NEED_BRANCH
<1>3. \A t, known : i.op \notin {"JMP", "RET"} => \A q \in FieldLoad(i, t, known) : Fine(q, i)
  BY <1>1 DEF FieldLoad
<1>4. CASE i.op = "LD_ATOM_META"
  BY <1>3, <1>4 DEF execute_instruction, LdAtomMeta
<1>5. CASE i.op = "LD_CLAIM"
  BY <1>1, <1>5 DEF execute_instruction, LdClaim
<1>6. CASE i.op = "LD_QC"
  BY <1>3, <1>6 DEF execute_instruction, LdQc
<1>7. CASE i.op = "LD_CTX"
  BY <1>3, <1>7 DEF execute_instruction, LdCtx
<1>8. CASE i.op = "LD_IMM"
  BY <1>1, <1>8 DEF execute_instruction
<1>9. CASE i.op \in {"EQ", "LT", "LE", "GT", "GE"}
  <2>1. o \in Compare(i)
    BY <1>9 DEF execute_instruction
  <2> QED
    BY <1>1, <1>9, <2>1 DEF Compare
<1>10. CASE i.op = "IN_RANGE"
  BY <1>1, <1>10 DEF execute_instruction, InRange
<1>11. CASE i.op = "HAS_BIT"
  BY <1>1, <1>11 DEF execute_instruction, HasBit
<1>12. CASE i.op = "IS_TAG"
  BY <1>1, <1>12 DEF execute_instruction, IsTag
<1>13. CASE i.op = "CHK_TIME"
  BY <1>1, <1>2, <1>13 DEF execute_instruction, ChkTime
<1>14. CASE i.op = "CHK_TRUST"
  BY <1>1, <1>2, <1>14 DEF execute_instruction, ChkTrust
<1>15. CASE i.op = "CHK_DOMAIN"
  BY <1>1, <1>2, <1>15 DEF execute_instruction, ChkDomain
<1>16. CASE i.op = "CHK_SOURCE"
  BY <1>1, <1>2, <1>16 DEF execute_instruction, ChkSource
<1>17. CASE i.op = "CTX_PROBE"
  BY <1>1, <1>2, <1>17 DEF execute_instruction, CtxProbe
<1>18. CASE i.op = "RAISE_CONFLICT"
  BY <1>1, <1>2, <1>18 DEF execute_instruction, RaiseConflict
<1>19. CASE i.op = "JZ"
  BY <1>1, <1>19 DEF execute_instruction, Jz
<1>20. CASE i.op = "JMP"
  BY <1>1, <1>20 DEF execute_instruction, Jmp
<1>21. CASE i.op = "RET"
  <2>1. i.a % 256 \in 0..3 => Fine(Halt(i.a % 256, reason), i)
    BY <1>1, <1>21
  <2>2. Fine(Halt(result, reason), i)
    BY <1>1, <1>21
  <2> QED
    BY <1>21, <2>1, <2>2 DEF execute_instruction, Ret
<1>22. CASE i.op = "AND"
  BY <1>1, <1>22 DEF execute_instruction, AndOp
<1>23. CASE i.op = "NOT"
  BY <1>1, <1>23 DEF execute_instruction, NotOp
<1>24. CASE i.op = "JNZ"
  BY <1>1, <1>24 DEF execute_instruction, Jnz
<1>25. CASE i.op = "CALL"
  BY <1>1, <1>25 DEF execute_instruction, Call
<1>26. i.op \in Opcode
  BY DEF Instruction
<1> QED
  BY <1>4, <1>5, <1>6, <1>7, <1>8, <1>9, <1>10, <1>11, <1>12, <1>13, <1>14, <1>15, <1>16, <1>17,
     <1>18, <1>19, <1>20, <1>21, <1>22, <1>23, <1>24, <1>25, <1>26
     DEF Opcode, LoadOps, ComparisonOps, CheckOps, ControlOps

-----------------------------------------------------------------------------
(* The machine.                                                            *)

MachineOK ==
    /\ result \in 0..3 /\ reason # "CORRUPT_SECTION" /\ pc \in Nat
    /\ code \in Seq(Instruction)
    /\ code # <<>> => validate(code)
    /\ code = <<>> => verdict # Running

(* Until it halts, the machine is where the validation's pass has been.    *)
OnPath ==
    code # <<>> /\ Forward(code) =>
        /\ verdict # Corrupt
        /\ halted \/ pc \in ForwardPass(code).reachable

(* Of a valid program every reachable address is below its last RET.       *)
LEMMA LastReturn ==
  ASSUME NEW p \in Seq(Instruction), validate(p)
  PROVE  \E k \in 1..Len(p) :
            p[k].op = "RET" /\ \A i \in ForwardPass(p).reachable : i <= k - 1
<1> DEFINE rets == {j \in 1..Len(p) : p[j].op = "RET"}
           before == {k - 1 : k \in rets}
<1>1. \A i \in ForwardPass(p).reachable : i <= Max(before)
  BY DEF validate
<1>2. before # {} /\ before \subseteq Nat /\ \A x \in before : x <= Len(p)
  BY DEF validate
<1>3. Len(p) \in Nat
  OBVIOUS
<1> HIDE DEF before
<1>4. Max(before) \in before
  BY <1>2, <1>3, MaxOfBounded
<1>5. PICK k \in rets : Max(before) = k - 1
  BY <1>4 DEF before
<1> QED
  BY <1>1, <1>5

LEMMA EarlyRuns ==
  ASSUME NEW b \in Bodies, Early(b) = Running
  PROVE  b.inv.code \in Seq(Instruction) /\ validate(b.inv.code)
<1> DEFINE s == find_invariants_section(b)
<1>1. Pass # Running /\ Corrupt # Running
  BY DEF Pass, Corrupt, Running, vm_result_to_abi, PASS, FAIL_SOFT, FAIL_HARD
<1>2. s # None /\ validate(s.code)
  BY <1>1 DEF Early
<1>3. s = b.inv /\ b.inv # None
  BY <1>2 DEF find_invariants_section
<1>4. b.inv.code \in Seq([op: Opcode \union {None}, a: Nat, b: Nat, imm: Nat])
  BY <1>3, BodyAssumption
<1>5. PICK c : c = b.inv.code
  OBVIOUS
<1>6. \A k \in 1..Len(c) : c[k] \in Instruction
  <2>1. \A k \in 1..Len(c) : c[k].op \in Opcode
    BY <1>2, <1>3, <1>5 DEF validate
  <2>2. PICK S : S = [op: Opcode \union {None}, a: Nat, b: Nat, imm: Nat]
    OBVIOUS
  <2>3. c \in Seq(S)
    BY <1>4, <1>5, <2>2
  <2>4. \A k \in 1..Len(c) : c[k] \in S
    BY <2>3
  <2> QED
    BY <2>1, <2>2, <2>4 DEF Instruction
<1>7. c \in Seq(Instruction)
  <2>1. PICK S : S = [op: Opcode \union {None}, a: Nat, b: Nat, imm: Nat]
    OBVIOUS
  <2>2. c \in Seq(S)
    BY <1>4, <1>5, <2>1
  <2> QED
    BY <1>6, <2>2
<1> QED
  BY <1>2, <1>3, <1>5, <1>7

LEMMA MachineStarts == VmInit => MachineOK /\ OnPath
<1> SUFFICES ASSUME NEW b \in Bodies, NEW q, NEW x, BeginEval(b, q, x)
             PROVE  MachineOK /\ OnPath
  BY DEF VmInit
<1>1. /\ verdict = Early(b) /\ code = IF verdict = Running THEN b.inv.code ELSE <<>>
      /\ pc = 0 /\ result = PASS /\ reason = "TIME_INVALID" /\ halted = FALSE
  BY DEF BeginEval
<1>2. Corrupt # Running
  BY DEF Corrupt, Running, vm_result_to_abi, PASS, FAIL_SOFT, FAIL_HARD
<1>3. CASE verdict = Running
  <2>1. code \in Seq(Instruction) /\ validate(code)
    BY <1>1, <1>3, EarlyRuns
  <2>2. ~ForwardPass(code).bad /\ code # <<>>
    BY <2>1 DEF validate
  <2>3. Forward(code) => 0 \in ForwardPass(code).reachable
    BY <2>1, <2>2, PassFollows DEF Follows
  <2> QED
    BY <1>1, <1>2, <1>3, <2>1, <2>2, <2>3 DEF MachineOK, OnPath, PASS
<1>4. CASE verdict # Running
  BY <1>1, <1>4 DEF MachineOK, OnPath, PASS
<1> QED
  BY <1>3, <1>4

LEMMA ExecuteOnPath == MachineOK /\ OnPath /\ Execute => MachineOK' /\ OnPath'
<1> SUFFICES ASSUME MachineOK, OnPath, Execute PROVE MachineOK' /\ OnPath'
  OBVIOUS
<1>1. PICK i : i = code[pc + 1]
  OBVIOUS
<1>2. /\ verdict = Running /\ ~halted /\ pc < Len(code) /\ code' = code /\ code # <<>>
      /\ pc \in Nat /\ Len(code) \in Nat /\ code \in Seq(Instruction) /\ validate(code)
  BY DEF Execute, MachineOK
<1>3. PICK o \in execute_instruction(i) :
        /\ result' = o.result /\ reason' = o.reason /\ halted' = (o.flow = "halt")
        /\ pc' = IF o.flow = "jump" /\ o.to < Len(code) THEN o.to ELSE pc + 1
        /\ verdict' = CASE o.flow = "panic" -> [kind |-> "Panic", reason |-> None]
                        [] o.flow = "jump" /\ o.to >= Len(code) -> Corrupt
                        [] OTHER -> Running
  BY <1>1 DEF Execute
<1>4. pc + 1 \in 1..Len(code) /\ i \in Instruction
  BY <1>1, <1>2
<1>5. Fine(o, i)
  BY <1>3, <1>4, OutcomesFine DEF MachineOK
<1>6. pc' \in Nat
  BY <1>2, <1>3, <1>4, <1>5 DEF Fine, Instruction
<1>7. MachineOK'
  BY <1>2, <1>3, <1>5, <1>6 DEF MachineOK, Fine
<1>8. ASSUME Forward(code) PROVE verdict' # Corrupt /\ (halted' \/ pc' \in ForwardPass(code).reachable)
  <2>1. PICK R : R = ForwardPass(code).reachable
    OBVIOUS
  <2>2. ~ForwardPass(code).bad
    BY <1>2 DEF validate
  <2>3. Follows(code, R)
    BY <1>2, <1>8, <2>1, <2>2, PassFollows
  <2>4. pc \in R
    BY <1>2, <1>8, <2>1 DEF OnPath
  <2>5. /\ i.op \in {"JZ", "JMP"} => i.b < Len(code) /\ i.b \in R
        /\ i.op \notin {"RET", "JMP"} /\ pc + 1 < Len(code) => pc + 1 \in R
    BY <1>1, <1>2, <2>3, <2>4 DEF Follows
  <2>6. i.op \notin {"JNZ", "CALL"}
    BY <1>1, <1>4, <1>8 DEF Forward
  <2>7. [kind |-> "Panic", reason |-> None] # Corrupt /\ Running # Corrupt
    BY DEF Corrupt, Running, vm_result_to_abi, PASS, FAIL_SOFT, FAIL_HARD
  <2>8. CASE o.flow = "jump"
    <3>1. o.to = i.b /\ i.op \in {"JZ", "JMP"}
      BY <1>5, <2>6, <2>8 DEF Fine
    <3>2. o.to < Len(code) /\ o.to \in R /\ i.b \in Nat
      BY <1>4, <2>5, <3>1 DEF Instruction
    <3>3. ~(o.to >= Len(code))
      BY <1>2, <3>1, <3>2
    <3>4. pc' = o.to /\ verdict' = Running
      BY <1>3, <2>8, <3>2, <3>3
    <3> QED
      BY <2>1, <2>7, <3>2, <3>4
  <2>9. CASE o.flow = "halt"
    BY <1>3, <2>7, <2>9
  <2>10. CASE o.flow \in {"continue", "panic"}
    <3>1. i.op \notin {"RET", "JMP"}
      BY <1>5, <2>10 DEF Fine
    <3>2. PICK k \in 1..Len(code) : code[k].op = "RET" /\ \A j \in R : j <= k - 1
      BY <1>2, <2>1, LastReturn
    <3>3. pc <= k - 1 /\ pc # k - 1
      BY <1>1, <2>4, <3>1, <3>2
    <3>4. pc + 1 < Len(code)
      BY <1>2, <3>2, <3>3
    <3>5. pc' = pc + 1 /\ pc + 1 \in R
      BY <1>3, <2>5, <2>10, <3>1, <3>4
    <3>6. verdict' # Corrupt
      BY <1>3, <2>7, <2>10
    <3> QED
      BY <2>1, <3>5, <3>6
  <2> QED
    BY <1>5, <2>8, <2>9, <2>10 DEF Fine
<1> QED
  BY <1>2, <1>7, <1>8 DEF OnPath, Corrupt, vm_result_to_abi

LEMMA MachineStep == MachineOK /\ OnPath /\ [VmNext]_vmvars => MachineOK' /\ OnPath'
<1> SUFFICES ASSUME MachineOK, OnPath, [VmNext]_vmvars PROVE MachineOK' /\ OnPath'
  OBVIOUS
<1>1. CASE OutOfBudget
  <2>1. /\ code' = code /\ verdict' = verdict /\ pc' = pc
        /\ result' = FAIL_HARD /\ reason' = "BUDGET_EXCEEDED" /\ halted'
    BY <1>1 DEF OutOfBudget
  <2> QED
    BY <2>1 DEF MachineOK, OnPath, FAIL_HARD, Corrupt, vm_result_to_abi
<1>2. CASE Execute
  BY <1>2, ExecuteOnPath
<1>3. CASE Finish
  <2>1. /\ code' = code /\ pc' = pc /\ result' = result /\ reason' = reason /\ halted' = halted
        /\ verdict' = vm_result_to_abi(result, reason) /\ verdict = Running
    BY <1>3 DEF Finish
  <2>2. verdict' # Corrupt /\ verdict' # Running
    BY <2>1 DEF MachineOK, Corrupt, Running, vm_result_to_abi, PASS, FAIL_SOFT, FAIL_HARD, NEED_BRANCH
  <2> QED
    BY <2>1, <2>2 DEF MachineOK, OnPath, Corrupt, vm_result_to_abi
<1>4. CASE UNCHANGED vmvars
  BY <1>4 DEF vmvars, MachineOK, OnPath, Corrupt, vm_result_to_abi
<1> QED
  BY <1>1, <1>2, <1>3, <1>4 DEF VmNext

(* For any programs, bodies and budget, a validated program that jumps     *)
(* only forward (validate, execute) never runs past its last instruction   *)
(* and is never cut off inside its bounds.                                 *)
THEOREM ForwardRunsReturn == VmSpec => []ForwardProgramsReturn
<1>1. MachineOK /\ OnPath => ForwardProgramsReturn
  <2> SUFFICES ASSUME MachineOK, OnPath, ForwardOnly, code # <<>>
               PROVE  (pc < Len(code) \/ halted) /\ verdict # Corrupt
    BY DEF ForwardProgramsReturn
  <2>1. Forward(code)
    BY DEF MachineOK, Forward, ForwardOnly
  <2>2. code \in Seq(Instruction) /\ validate(code) /\ pc \in Nat
    BY DEF MachineOK
  <2>3. PICK k \in 1..Len(code) : \A j \in ForwardPass(code).reachable : j <= k - 1
    BY <2>2, LastReturn
  <2>4. pc \in ForwardPass(code).reachable => pc < Len(code)
    BY <2>2, <2>3
  <2> QED
    BY <2>1, <2>4 DEF OnPath
<1> QED
  BY <1>1, MachineStarts, MachineStep, PTL DEF VmSpec

-----------------------------------------------------------------------------
(* Words and their bits.                                                   *)

LEMMA PowerPositive == \A n \in Nat : 2 ^ n \in Nat /\ 2 ^ n > 0
<1> TAKE n \in Nat
<1>1. IsFiniteSet(1..n) /\ Cardinality(1..n) = n
  BY FS_Interval
<1>2. IsFiniteSet(SUBSET (1..n)) /\ Cardinality(SUBSET (1..n)) = 2 ^ n
  BY <1>1, FS_SUBSET
<1>3. Cardinality(SUBSET (1..n)) \in Nat /\ Cardinality(SUBSET (1..n)) # 0
  BY <1>2, FS_CardinalityType, FS_EmptySet
<1> QED
  BY <1>2, <1>3

(* The fold that adds up the powers of two of a set of bits.               *)
Chosen(t) == CHOOSE x \in t : TRUE
Adds(c, S) ==
    c = [t \in SUBSET S |-> IF t = {} THEN 0 ELSE 2 ^ Chosen(t) + c[t \ {Chosen(t)}]]

(* Taking one element out of a finite set.                                 *)
LEMMA OneLess ==
  ASSUME NEW S, IsFiniteSet(S), NEW t \in SUBSET S, t # {}
  PROVE  /\ IsFiniteSet(t) /\ Chosen(t) \in t /\ t \ {Chosen(t)} \in SUBSET S
         /\ Cardinality(t \ {Chosen(t)}) = Cardinality(t) - 1
         /\ Cardinality(t) \in Nat /\ Cardinality(t) >= 1
<1>1. IsFiniteSet(t)
  BY FS_Subset
<1>2. Chosen(t) \in t
  BY DEF Chosen
<1>3. Cardinality(t \ {Chosen(t)}) = Cardinality(t) - 1
  BY <1>1, <1>2, FS_RemoveElement
<1>4. Cardinality(t) \in Nat /\ Cardinality(t) # 0
  BY <1>1, FS_CardinalityType, FS_EmptySet
<1> QED
  BY <1>1, <1>2, <1>3, <1>4

(* Such a sum exists: it grows by one bit at a time.                       *)
LEMMA AddsExists ==
  ASSUME NEW S, IsFiniteSet(S)
  PROVE  \E c : Adds(c, S)
<1> DEFINE n == Cardinality(S)
           Upto(k) == {t \in SUBSET S : Cardinality(t) <= k}
           Sum(c, t) == IF t = {} THEN 0 ELSE 2 ^ Chosen(t) + c[t \ {Chosen(t)}]
           Has(k) == \E c : c = [t \in Upto(k) |-> Sum(c, t)]
           T == {k \in 0..n : Has(k)}
<1>1. n \in Nat
  BY FS_CardinalityType
<1>2. Has(0)
  <2>1. PICK c : c = [t \in Upto(0) |-> 0]
    OBVIOUS
  <2>2. ASSUME NEW t \in Upto(0) PROVE t = {}
    <3>1. t # {} => Cardinality(t) \in Nat /\ Cardinality(t) >= 1
      BY OneLess
    <3> QED
      BY <3>1
  <2>3. \A t \in Upto(0) : Sum(c, t) = 0
    BY <2>2
  <2>4. c = [t \in Upto(0) |-> Sum(c, t)]
    <3> HIDE DEF Sum, Upto
    <3> QED
      BY <2>1, <2>3
  <2> QED
    BY <2>4
<1>3. ASSUME NEW k \in 1..n, Has(k - 1) PROVE Has(k)
  <2>1. PICK f : f = [t \in Upto(k - 1) |-> Sum(f, t)]
    BY <1>3
  <2>2. PICK c : c = [t \in Upto(k) |-> Sum(f, t)]
    OBVIOUS
  <2>3. ASSUME NEW t \in Upto(k) PROVE Sum(c, t) = Sum(f, t)
    <3>1. CASE t = {}
      BY <3>1
    <3>2. CASE t # {}
      <4>1. PICK u : u = t \ {Chosen(t)}
        OBVIOUS
      <4>2. u \in SUBSET S /\ Cardinality(u) = Cardinality(t) - 1 /\ Cardinality(t) \in Nat
        BY <3>2, <4>1, OneLess
      <4>3. u \in Upto(k - 1) /\ u \in Upto(k)
        BY <4>2
      <4>4. f[u] = Sum(f, u) /\ c[u] = Sum(f, u)
        <5> HIDE DEF Sum, Upto
        <5> QED
          BY <2>1, <2>2, <4>3
      <4> QED
        BY <3>2, <4>1, <4>4
    <3> QED
      BY <3>1, <3>2
  <2>4. c = [t \in Upto(k) |-> Sum(c, t)]
    <3> HIDE DEF Sum, Upto
    <3> QED
      BY <2>2, <2>3
  <2> QED
    BY <2>4
<1>4. n \in T
  <2>1. 0 \in T
    <3> HIDE DEF Has
    <3> QED
      BY <1>1, <1>2
  <2>2. \A k \in 1..n : k - 1 \in T => k \in T
    <3> HIDE DEF Has
    <3> QED
      BY <1>3
  <2> HIDE DEF T
  <2>3. \A k \in 0..n : k \in T
    BY <1>1, <2>1, <2>2, Climb
  <2> QED
    BY <1>1, <2>3
<1>5. PICK c : c = [t \in Upto(n) |-> Sum(c, t)]
  BY <1>4
<1>6. Upto(n) = SUBSET S
  BY FS_Subset
<1> QED
  BY <1>5, <1>6 DEF Adds

(* A word is zero exactly when it has no bits.                             *)
LEMMA WordOfZero ==
  ASSUME NEW S \in SUBSET (0..(WordBits - 1))
  PROVE  WordOf(S) \in Nat /\ (WordOf(S) = 0 <=> S = {})
<1>1. WordBits \in Nat
  BY WordAssumption
<1>2. IsFiniteSet(S) /\ S \subseteq Nat
  <2>1. IsFiniteSet(0..(WordBits - 1)) /\ 0..(WordBits - 1) \subseteq Nat
    BY <1>1, FS_Interval
  <2>2. IsFiniteSet(S)
    BY <2>1, FS_Subset
  <2> QED
    BY <2>1, <2>2
<1> DEFINE c == CHOOSE f : Adds(f, S)
<1>3. WordOf(S) = c[S]
  BY DEF WordOf, MapThenSumSet, MapThenFoldSet, Adds, Chosen
<1>4. Adds(c, S)
  BY <1>2, AddsExists
<1> HIDE DEF c
<1>5. c[{}] = 0 /\ \A t \in SUBSET S : t # {} => c[t] = 2 ^ Chosen(t) + c[t \ {Chosen(t)}]
  <2>1. \A t \in SUBSET S : c[t] = IF t = {} THEN 0 ELSE 2 ^ Chosen(t) + c[t \ {Chosen(t)}]
    BY <1>4 DEF Adds
  <2>2. \A t \in SUBSET S : t # {} => c[t] = 2 ^ Chosen(t) + c[t \ {Chosen(t)}]
    BY <2>1
  <2>3. {} \in SUBSET S
    OBVIOUS
  <2> QED
    BY <2>1, <2>2, <2>3
<1> DEFINE n == Cardinality(S)
           T == {k \in 0..n : \A t \in SUBSET S : Cardinality(t) <= k => c[t] \in Nat}
<1>6. n \in Nat
  BY <1>2, FS_CardinalityType
<1>7. 0 \in T
  <2>1. ASSUME NEW t \in SUBSET S, Cardinality(t) <= 0 PROVE c[t] \in Nat
    <3>1. t # {} => Cardinality(t) \in Nat /\ Cardinality(t) >= 1
      BY <1>2, OneLess
    <3>2. t = {}
      BY <2>1, <3>1
    <3> QED
      BY <1>5, <3>2
  <2> QED
    BY <1>6, <2>1
<1>8. ASSUME NEW k \in 1..n, k - 1 \in T PROVE k \in T
  <2>1. ASSUME NEW t \in SUBSET S, Cardinality(t) <= k PROVE c[t] \in Nat
    <3>1. CASE t = {}
      BY <1>5, <3>1
    <3>2. CASE t # {}
      <4>1. /\ Chosen(t) \in t /\ t \ {Chosen(t)} \in SUBSET S /\ Cardinality(t) \in Nat
            /\ Cardinality(t \ {Chosen(t)}) = Cardinality(t) - 1
        BY <1>2, <3>2, OneLess
      <4>2. c[t \ {Chosen(t)}] \in Nat
        BY <1>8, <2>1, <4>1
      <4>3. 2 ^ Chosen(t) \in Nat
        BY <1>2, <4>1, PowerPositive
      <4> QED
        BY <1>5, <3>2, <4>2, <4>3
    <3> QED
      BY <3>1, <3>2
  <2> QED
    BY <2>1
<1>9. \A t \in SUBSET S : c[t] \in Nat
  <2> HIDE DEF T
  <2>1. \A k \in 0..n : k \in T
    BY <1>6, <1>7, <1>8, Climb
  <2>2. n \in T
    BY <1>6, <2>1
  <2>3. \A t \in SUBSET S : Cardinality(t) <= n
    BY <1>2, FS_Subset
  <2> QED
    BY <2>2, <2>3 DEF T
<1>10. CASE S = {}
  BY <1>3, <1>5, <1>10
<1>11. CASE S # {}
  <2>1. Chosen(S) \in S /\ S \ {Chosen(S)} \in SUBSET S
    BY <1>2, <1>11, OneLess
  <2>2. 2 ^ Chosen(S) \in Nat /\ 2 ^ Chosen(S) > 0
    BY <1>2, <2>1, PowerPositive
  <2>3. c[S] = 2 ^ Chosen(S) + c[S \ {Chosen(S)}] /\ c[S \ {Chosen(S)}] \in Nat
    BY <1>5, <1>9, <1>11, <2>1
  <2>4. PICK x, y : x = 2 ^ Chosen(S) /\ y = c[S \ {Chosen(S)}]
    OBVIOUS
  <2>5. x \in Nat /\ x > 0 /\ y \in Nat /\ WordOf(S) = x + y
    BY <1>3, <2>2, <2>3, <2>4, Zenon
  <2>6. x + y \in Nat /\ x + y # 0
    BY <2>5
  <2> QED
    BY <1>11, <2>5, <2>6, Zenon
<1> QED
  BY <1>10, <1>11

(* What CHK_DOMAIN asks: do two words share a bit?                         *)
LEMMA AndIsZero ==
  \A a, b : And(a, b) = 0 <=> ~\E n \in 0..(WordBits - 1) :
                (a \div 2 ^ n) % 2 = 1 /\ (b \div 2 ^ n) % 2 = 1
<1> TAKE a, b
<1>1. PICK S : S = Bits(a) \intersect Bits(b)
  OBVIOUS
<1>2. \A n : n \in S <=> /\ n \in 0..(WordBits - 1)
                         /\ (a \div 2 ^ n) % 2 = 1 /\ (b \div 2 ^ n) % 2 = 1
  BY <1>1 DEF Bits
<1>3. S \in SUBSET (0..(WordBits - 1))
  BY <1>2
<1>4. And(a, b) = WordOf(S)
  BY <1>1 DEF And
<1>5. And(a, b) = 0 <=> S = {}
  BY <1>3, <1>4, WordOfZero
<1> QED
  BY <1>2, <1>5

-----------------------------------------------------------------------------
(* The instructions of the programs that the module builds.                *)

\* What an instruction does: continue, halt or jump.
Goes(rs) ==
    regs' = rs /\ pc' = pc + 1 /\ halted' = FALSE /\ result' = result /\ verdict' = Running
Stops(res) ==
    regs' = regs /\ pc' = pc + 1 /\ halted' = TRUE /\ result' = res /\ verdict' = Running
Jumps(t) ==
    regs' = regs /\ pc' = t /\ halted' = FALSE /\ result' = result /\ verdict' = Running

LEMMA Executes ==
  ASSUME Execute, NEW i, code[pc + 1] = i
  PROVE  /\ \A rs : execute_instruction(i) = {Next1(rs)} => Goes(rs)
         /\ \A res, why : execute_instruction(i) = {Halt(res, why)} => Stops(res)
         /\ \A t \in Nat : execute_instruction(i) = {Jump(t, regs)} /\ t < Len(code) => Jumps(t)
<1>1. PICK o \in execute_instruction(i) :
        /\ regs' = o.regs /\ result' = o.result /\ halted' = (o.flow = "halt")
        /\ pc' = IF o.flow = "jump" /\ o.to < Len(code) THEN o.to ELSE pc + 1
        /\ verdict' = CASE o.flow = "panic" -> [kind |-> "Panic", reason |-> None]
                        [] o.flow = "jump" /\ o.to >= Len(code) -> Corrupt
                        [] OTHER -> Running
  BY DEF Execute
<1>2. ASSUME NEW rs, execute_instruction(i) = {Next1(rs)} PROVE Goes(rs)
  <2>1. o = Next1(rs)
    BY <1>2
  <2>2. o.flow = "continue" /\ o.regs = rs /\ o.result = result
    BY <2>1 DEF Next1
  <2> QED
    BY <1>1, <2>2 DEF Goes
<1>3. ASSUME NEW res, NEW why, execute_instruction(i) = {Halt(res, why)} PROVE Stops(res)
  <2>1. o = Halt(res, why)
    BY <1>3
  <2>2. o.flow = "halt" /\ o.regs = regs /\ o.result = res
    BY <2>1 DEF Next1, Halt
  <2> QED
    BY <1>1, <2>2 DEF Stops
<1>4. ASSUME NEW t \in Nat, execute_instruction(i) = {Jump(t, regs)}, t < Len(code) PROVE Jumps(t)
  <2>1. o = Jump(t, regs)
    BY <1>4
  <2>2. o.flow = "jump" /\ o.regs = regs /\ o.result = result /\ o.to = t
    BY <2>1 DEF Next1, Jump
  <2>3. ~(t >= Len(code))
    BY <1>4 DEF Execute
  <2> QED
    BY <1>1, <1>4, <2>2, <2>3 DEF Jumps
<1> QED
  BY <1>2, <1>3, <1>4

\* A value into a register.
Into1(v) == [regs EXCEPT ![1] = v]
Into2(v) == [regs EXCEPT ![2] = v]

LEMMA Register1And2 ==
  /\ \A op, b, m : reg_a(Instr(op, 1, b, m)) = 1 /\ reg_a(Instr(op, 2, b, m)) = 2
  /\ \A op, a, m : reg_b(Instr(op, a, 2, m)) = 2
  /\ get_reg(1) = regs[1] /\ get_reg(2) = regs[2]
  /\ \A v : set_reg(1, v) = Into1(v) /\ set_reg(2, v) = Into2(v)
<1>1. 1 % 16 = 1 /\ 2 % 16 = 2
  OBVIOUS
<1> QED
  BY <1>1 DEF reg_a, reg_b, Instr, get_reg, set_reg, Into1, Into2

(* The checks of the entry point's views.                                  *)
LEMMA ChecksMean ==
  ASSUME NEW a, NEW b, NEW m
  PROVE  /\ execute_instruction(Instr("CHK_TIME", a, b, m)) =
              IF Overlaps THEN {Next1(regs)} ELSE {Halt(FAIL_HARD, "TIME_INVALID")}
         /\ execute_instruction(Instr("CHK_TRUST", a, b, m)) =
              IF AtomView.trust < QcView.trust_min
              THEN {Halt(FAIL_HARD, "TRUST_TOO_LOW")} ELSE {Next1(regs)}
         /\ execute_instruction(Instr("CHK_DOMAIN", a, b, m)) =
              IF InDomain THEN {Next1(regs)} ELSE {Halt(FAIL_HARD, "DOMAIN_MISMATCH")}
         /\ \/ execute_instruction(Instr("CHK_SOURCE", a, b, m)) = {Next1(regs)}
            \/ execute_instruction(Instr("CHK_SOURCE", a, b, m)) = {Halt(FAIL_HARD, "SOURCE_DENIED")}
<1>1. execute_instruction(Instr("CHK_TIME", a, b, m)) =
        IF Overlaps THEN {Next1(regs)} ELSE {Halt(FAIL_HARD, "TIME_INVALID")}
  BY DEF execute_instruction, Instr, ChkTime, Overlaps
<1>2. execute_instruction(Instr("CHK_TRUST", a, b, m)) =
        IF AtomView.trust < QcView.trust_min
        THEN {Halt(FAIL_HARD, "TRUST_TOO_LOW")} ELSE {Next1(regs)}
  BY DEF execute_instruction, Instr, ChkTrust
<1>3. execute_instruction(Instr("CHK_DOMAIN", a, b, m)) =
        IF InDomain THEN {Next1(regs)} ELSE {Halt(FAIL_HARD, "DOMAIN_MISMATCH")}
  <2>1. PICK v, w : v = AtomView.domain /\ w = QcView.domain
    OBVIOUS
  <2>2. execute_instruction(Instr("CHK_DOMAIN", a, b, m)) = ChkDomain(Instr("CHK_DOMAIN", a, b, m))
    BY DEF execute_instruction, Instr
  <2>3. InDomain <=> w = 0 \/ And(v, w) # 0
    BY <2>1, AndIsZero DEF InDomain
  <2> QED
    BY <2>1, <2>2, <2>3 DEF ChkDomain
<1>4. \/ execute_instruction(Instr("CHK_SOURCE", a, b, m)) = {Next1(regs)}
      \/ execute_instruction(Instr("CHK_SOURCE", a, b, m)) = {Halt(FAIL_HARD, "SOURCE_DENIED")}
  <2>1. execute_instruction(Instr("CHK_SOURCE", a, b, m)) = ChkSource(Instr("CHK_SOURCE", a, b, m))
    BY DEF execute_instruction, Instr
  <2> QED
    BY <2>1 DEF ChkSource
<1> QED
  BY <1>1, <1>2, <1>3, <1>4

LEMMA LoadsMean ==
  /\ execute_instruction(Instr("LD_ATOM_META", 1, 0, 0)) = {Next1(Into1(AtomView.from))}
  /\ execute_instruction(Instr("LD_ATOM_META", 1, 1, 0)) = {Next1(Into1(AtomView.to))}
  /\ execute_instruction(Instr("LD_ATOM_META", 1, 3, 0)) = {Next1(Into1(AtomView.trust))}
  /\ execute_instruction(Instr("LD_QC", 2, 0, 0)) = {Next1(Into2(QcView.from))}
  /\ execute_instruction(Instr("LD_QC", 2, 1, 0)) = {Next1(Into2(QcView.to))}
  /\ execute_instruction(Instr("LD_QC", 2, 2, 0)) = {Next1(Into2(QcView.trust_min))}
<1>1. \A b \in 0..5 : execute_instruction(Instr("LD_ATOM_META", 1, b, 0)) = LdAtomMeta(Instr("LD_ATOM_META", 1, b, 0))
  BY DEF execute_instruction, Instr
<1>2. \A b \in 0..5 : execute_instruction(Instr("LD_QC", 2, b, 0)) = LdQc(Instr("LD_QC", 2, b, 0))
  BY DEF execute_instruction, Instr
<1>3. ASSUME NEW i, NEW t, i.b \in DOMAIN t
      PROVE  FieldLoad(i, t, TRUE) = Set(i, t[i.b]) /\ FieldLoad(i, t, FALSE) = Set(i, t[i.b])
  BY <1>3 DEF FieldLoad
<1>4. ASSUME NEW op, NEW b, NEW v
      PROVE  /\ Set(Instr(op, 1, b, 0), v) = {Next1(Into1(v))}
             /\ Set(Instr(op, 2, b, 0), v) = {Next1(Into2(v))}
  BY Register1And2 DEF Set
<1>5. /\ LdAtomMeta(Instr("LD_ATOM_META", 1, 0, 0)) = Set(Instr("LD_ATOM_META", 1, 0, 0), AtomView.from)
      /\ LdAtomMeta(Instr("LD_ATOM_META", 1, 1, 0)) = Set(Instr("LD_ATOM_META", 1, 1, 0), AtomView.to)
      /\ LdAtomMeta(Instr("LD_ATOM_META", 1, 3, 0)) = Set(Instr("LD_ATOM_META", 1, 3, 0), AtomView.trust)
  <2> DEFINE T == [f \in 0..5 |-> CASE f = 0 -> AtomView.from [] f = 1 -> AtomView.to
                                    [] f = 2 -> AtomView.type [] f = 3 -> AtomView.trust
                                    [] f = 4 -> AtomView.domain [] f = 5 -> AtomView.source]
  <2>1. \A i : LdAtomMeta(i) = FieldLoad(i, T, TRUE)
    BY DEF LdAtomMeta
  <2>2. /\ T[0] = AtomView.from /\ T[1] = AtomView.to /\ T[3] = AtomView.trust
        /\ 0 \in DOMAIN T /\ 1 \in DOMAIN T /\ 3 \in DOMAIN T
    OBVIOUS
  <2>3. PICK t : t = T
    OBVIOUS
  <2> HIDE DEF T
  <2>4. FieldLoad(Instr("LD_ATOM_META", 1, 0, 0), t, TRUE) = Set(Instr("LD_ATOM_META", 1, 0, 0), t[0])
    <3>1. Instr("LD_ATOM_META", 1, 0, 0).b = 0
      BY DEF Instr
    <3> QED
      BY <1>3, <2>2, <2>3, <3>1
  <2>5. FieldLoad(Instr("LD_ATOM_META", 1, 1, 0), t, TRUE) = Set(Instr("LD_ATOM_META", 1, 1, 0), t[1])
    <3>1. Instr("LD_ATOM_META", 1, 1, 0).b = 1
      BY DEF Instr
    <3> QED
      BY <1>3, <2>2, <2>3, <3>1
  <2>6. FieldLoad(Instr("LD_ATOM_META", 1, 3, 0), t, TRUE) = Set(Instr("LD_ATOM_META", 1, 3, 0), t[3])
    <3>1. Instr("LD_ATOM_META", 1, 3, 0).b = 3
      BY DEF Instr
    <3> QED
      BY <1>3, <2>2, <2>3, <3>1
  <2> QED
    BY <2>1, <2>2, <2>3, <2>4, <2>5, <2>6
<1>6. /\ LdQc(Instr("LD_QC", 2, 0, 0)) = Set(Instr("LD_QC", 2, 0, 0), QcView.from)
      /\ LdQc(Instr("LD_QC", 2, 1, 0)) = Set(Instr("LD_QC", 2, 1, 0), QcView.to)
      /\ LdQc(Instr("LD_QC", 2, 2, 0)) = Set(Instr("LD_QC", 2, 2, 0), QcView.trust_min)
  <2> DEFINE T == [f \in 0..5 |-> CASE f = 0 -> QcView.from [] f = 1 -> QcView.to
                                    [] f = 2 -> QcView.trust_min [] f = 3 -> QcView.domain
                                    [] f = 4 -> QcView.types [] f = 5 -> QcView.max_results]
  <2>1. \A i : LdQc(i) = FieldLoad(i, T, FALSE)
    BY DEF LdQc
  <2>2. /\ T[0] = QcView.from /\ T[1] = QcView.to /\ T[2] = QcView.trust_min
        /\ 0 \in DOMAIN T /\ 1 \in DOMAIN T /\ 2 \in DOMAIN T
    OBVIOUS
  <2>3. PICK t : t = T
    OBVIOUS
  <2> HIDE DEF T
  <2>4. FieldLoad(Instr("LD_QC", 2, 0, 0), t, FALSE) = Set(Instr("LD_QC", 2, 0, 0), t[0])
    <3>1. Instr("LD_QC", 2, 0, 0).b = 0
      BY DEF Instr
    <3> QED
      BY <1>3, <2>2, <2>3, <3>1
  <2>5. FieldLoad(Instr("LD_QC", 2, 1, 0), t, FALSE) = Set(Instr("LD_QC", 2, 1, 0), t[1])
    <3>1. Instr("LD_QC", 2, 1, 0).b = 1
      BY DEF Instr
    <3> QED
      BY <1>3, <2>2, <2>3, <3>1
  <2>6. FieldLoad(Instr("LD_QC", 2, 2, 0), t, FALSE) = Set(Instr("LD_QC", 2, 2, 0), t[2])
    <3>1. Instr("LD_QC", 2, 2, 0).b = 2
      BY DEF Instr
    <3> QED
      BY <1>3, <2>2, <2>3, <3>1
  <2> QED
    BY <2>1, <2>2, <2>3, <2>4, <2>5, <2>6
<1>7. 0 \in 0..5 /\ 1 \in 0..5 /\ 2 \in 0..5 /\ 3 \in 0..5
  OBVIOUS
<1>8. /\ execute_instruction(Instr("LD_ATOM_META", 1, 0, 0)) = {Next1(Into1(AtomView.from))}
      /\ execute_instruction(Instr("LD_ATOM_META", 1, 1, 0)) = {Next1(Into1(AtomView.to))}
      /\ execute_instruction(Instr("LD_ATOM_META", 1, 3, 0)) = {Next1(Into1(AtomView.trust))}
  BY <1>1, <1>4, <1>5, <1>7
<1>9. /\ execute_instruction(Instr("LD_QC", 2, 0, 0)) = {Next1(Into2(QcView.from))}
      /\ execute_instruction(Instr("LD_QC", 2, 1, 0)) = {Next1(Into2(QcView.to))}
      /\ execute_instruction(Instr("LD_QC", 2, 2, 0)) = {Next1(Into2(QcView.trust_min))}
  BY <1>2, <1>4, <1>6, <1>7
<1> QED
  BY <1>8, <1>9

LEMMA ComparisonsMean ==
  /\ execute_instruction(Instr("LT", 1, 2, 0)) = {Next1(Into1(Bool(regs[1] < regs[2])))}
  /\ execute_instruction(Instr("GT", 1, 2, 0)) = {Next1(Into1(Bool(regs[1] > regs[2])))}
  /\ execute_instruction(Instr("GE", 1, 2, 0)) = {Next1(Into1(Bool(regs[1] >= regs[2])))}
  /\ \A t \in 0..255 : execute_instruction(Instr("IS_TAG", 1, 0, t)) = {Next1(Into1(Bool(regs[1] = t)))}
<1>1. \A op, b, m, v : Set(Instr(op, 1, b, m), v) = {Next1(Into1(v))}
  BY Register1And2 DEF Set
<1>2. \A op : /\ get_reg(reg_a(Instr(op, 1, 2, 0))) = regs[1] /\ get_reg(reg_b(Instr(op, 1, 2, 0))) = regs[2]
  BY Register1And2
<1>3. \A op \in {"LT", "GT", "GE"} : execute_instruction(Instr(op, 1, 2, 0)) = Compare(Instr(op, 1, 2, 0))
  BY DEF execute_instruction, Instr
<1>4. \A op : Instr(op, 1, 2, 0).op = op
  BY DEF Instr
<1>5. Compare(Instr("LT", 1, 2, 0)) = Set(Instr("LT", 1, 2, 0), Bool(regs[1] < regs[2]))
  BY <1>2, <1>4 DEF Compare
<1>6. Compare(Instr("GT", 1, 2, 0)) = Set(Instr("GT", 1, 2, 0), Bool(regs[1] > regs[2]))
  BY <1>2, <1>4 DEF Compare
<1>7. Compare(Instr("GE", 1, 2, 0)) = Set(Instr("GE", 1, 2, 0), Bool(regs[1] >= regs[2]))
  BY <1>2, <1>4 DEF Compare
<1>8. ASSUME NEW t \in 0..255
      PROVE  execute_instruction(Instr("IS_TAG", 1, 0, t)) = {Next1(Into1(Bool(regs[1] = t)))}
  <2>1. t % 256 = t
    OBVIOUS
  <2>2. execute_instruction(Instr("IS_TAG", 1, 0, t)) = IsTag(Instr("IS_TAG", 1, 0, t))
    BY DEF execute_instruction, Instr
  <2>3. Instr("IS_TAG", 1, 0, t).imm = t
    BY DEF Instr
  <2>4. IsTag(Instr("IS_TAG", 1, 0, t)) = Set(Instr("IS_TAG", 1, 0, t), Bool(regs[1] = t))
    BY <2>1, <2>3, Register1And2 DEF IsTag
  <2> QED
    BY <1>1, <2>2, <2>4
<1>9. execute_instruction(Instr("LT", 1, 2, 0)) = {Next1(Into1(Bool(regs[1] < regs[2])))}
  BY <1>1, <1>3, <1>5
<1>10. execute_instruction(Instr("GT", 1, 2, 0)) = {Next1(Into1(Bool(regs[1] > regs[2])))}
  BY <1>1, <1>3, <1>6
<1>11. execute_instruction(Instr("GE", 1, 2, 0)) = {Next1(Into1(Bool(regs[1] >= regs[2])))}
  BY <1>1, <1>3, <1>7
<1> QED
  BY <1>8, <1>9, <1>10, <1>11

LEMMA JumpsMean ==
  /\ \A t : execute_instruction(Instr("JZ", 1, t, 0)) = IF regs[1] = 0 THEN {Jump(t, regs)} ELSE {Next1(regs)}
  /\ execute_instruction(Instr("RET", PASS, 0, 0)) = {Halt(PASS, reason)}
  /\ execute_instruction(Instr("RET", FAIL_HARD, 0, 0)) = {Halt(FAIL_HARD, reason)}
<1>1. ASSUME NEW t
      PROVE  execute_instruction(Instr("JZ", 1, t, 0)) = IF regs[1] = 0 THEN {Jump(t, regs)} ELSE {Next1(regs)}
  <2>1. execute_instruction(Instr("JZ", 1, t, 0)) = Jz(Instr("JZ", 1, t, 0)) /\ Instr("JZ", 1, t, 0).b = t
    BY DEF execute_instruction, Instr
  <2> QED
    BY <2>1, Register1And2 DEF Jz
<1>2. ASSUME NEW r \in {0, 2}
      PROVE  execute_instruction(Instr("RET", r, 0, 0)) = {Halt(r, reason)}
  <2>1. execute_instruction(Instr("RET", r, 0, 0)) = Ret(Instr("RET", r, 0, 0)) /\ Instr("RET", r, 0, 0).a = r
    BY DEF execute_instruction, Instr
  <2>2. r % 256 = r /\ r \in 0..3
    OBVIOUS
  <2> QED
    BY <2>1, <2>2 DEF Ret
<1> QED
  BY <1>1, <1>2 DEF PASS, FAIL_HARD

(* The first claim's tag, by the packed operand that the program uses.     *)
LEMMA ClaimMeans ==
  execute_instruction(Instr("LD_CLAIM", 1, 1 + 2 * ClaimShift, 0)) = {Next1(Into1(FirstTag))}
<1>1. PICK i : i = Instr("LD_CLAIM", 1, 1 + 2 * ClaimShift, 0)
  OBVIOUS
<1>2. i.op = "LD_CLAIM" /\ i.b = 131073 /\ reg_a(i) = 1
  <2>1. 1 + 2 * 65536 = 131073 /\ 1 % 16 = 1
    OBVIOUS
  <2> QED
    BY <1>1, <2>1 DEF Instr, ClaimShift, reg_a
<1>3. i.b % ClaimShift = 1 /\ i.b \div ClaimShift = 2
  <2>1. 131073 % 65536 = 1 /\ 131073 \div 65536 = 2
    OBVIOUS
  <2> QED
    BY <1>2, <2>1 DEF ClaimShift
<1>4. execute_instruction(i) = LdClaim(i)
  BY <1>2 DEF execute_instruction
<1>5. PICK L, c : /\ L = AtomView.claims
                  /\ c = IF 1 <= Len(L) THEN L[1] ELSE None
  OBVIOUS
<1>6. FirstTag = IF c = None THEN 0 ELSE c.tag
  BY <1>5 DEF FirstTag
<1>7. LdClaim(i) = Set(i, IF c = None THEN 0 ELSE c.tag)
  BY <1>3, <1>5 DEF LdClaim
<1>8. \A v : Set(i, v) = {Next1(Into1(v))}
  BY <1>2, Register1And2 DEF Set
<1> QED
  BY <1>1, <1>4, <1>6, <1>7, <1>8

-----------------------------------------------------------------------------
(* The views that a run judges by.                                         *)

Given == body \in Bodies /\ qc \in Queries

LEMMA MinOfTwo == \A a, b \in Int : Min({a, b}) \in Int
<1> TAKE a, b \in Int
<1>1. \E x \in {a, b} : \A y \in {a, b} : x <= y
  <2>1. CASE a <= b
    BY <2>1
  <2>2. CASE b <= a
    BY <2>2
  <2> QED
    BY <2>1, <2>2
<1>2. Min({a, b}) \in {a, b}
  BY <1>1 DEF Min
<1> QED
  BY <1>2

LEMMA ViewsAreNumbers ==
  ASSUME Given
  PROVE  /\ AtomView.from \in Int /\ AtomView.to \in Int /\ AtomView.trust \in Int
         /\ QcView.from \in Int /\ QcView.to \in Int /\ QcView.trust_min \in Int
<1>1. MaxWord \in Int
  <2>1. 2 ^ WordBits \in Nat
    BY WordAssumption, PowerPositive
  <2> QED
    BY <2>1 DEF MaxWord, Words
<1>2. /\ body.from \in Nat /\ body.to \in Nat
      /\ body.meta # None => body.meta.trust \in Nat
      /\ qc.time # None => qc.time[1] \in Nat /\ qc.time[2] \in Nat
      /\ qc.trust # None => qc.trust \in Nat
  BY BodyAssumption, QueryAssumption DEF Given
<1>3. parse_meta_bytes(body.meta).trust \in Int
  <2>1. CASE body.meta = None
    BY <2>1 DEF parse_meta_bytes
  <2>2. CASE body.meta # None
    <3>1. PICK x \in Int : x = body.meta.trust
      BY <1>2, <2>2
    <3>2. Min({x, 65535}) \in Int
      <4>1. PICK y \in Int : y = 65535
        OBVIOUS
      <4>2. Min({x, y}) \in Int
        BY MinOfTwo
      <4> QED
        BY <4>1, <4>2
    <3>3. PICK m : m = Min({x, 65535})
      OBVIOUS
    <3>4. parse_meta_bytes(body.meta).trust = m \/ parse_meta_bytes(body.meta).trust = 5
      BY <2>2, <3>1, <3>3 DEF parse_meta_bytes
    <3> QED
      BY <3>2, <3>3, <3>4
  <2> QED
    BY <2>1, <2>2
<1>4. /\ AtomView.from = body.from
      /\ AtomView.to = IF body.to = 0 THEN MaxWord ELSE body.to
      /\ AtomView.trust = parse_meta_bytes(body.meta).trust
  BY DEF AtomView
<1>5. /\ QcView.from = IF qc.time = None THEN 0 ELSE qc.time[1]
      /\ QcView.to = IF qc.time = None THEN MaxWord ELSE qc.time[2]
      /\ QcView.trust_min = IF qc.trust = None THEN 0 ELSE qc.trust
  BY DEF QcView
<1>6. AtomView.from \in Int /\ AtomView.to \in Int /\ AtomView.trust \in Int
  <2>1. body.from \in Int /\ body.to \in Int
    BY <1>2
  <2>2. AtomView.to \in Int
    <3>1. AtomView.to = MaxWord \/ AtomView.to = body.to
      BY <1>4
    <3>2. AtomView.to = MaxWord => AtomView.to \in Int
      BY <1>1, Zenon
    <3>3. AtomView.to = body.to => AtomView.to \in Int
      BY <2>1, Zenon
    <3> QED
      BY <3>1, <3>2, <3>3, Zenon
  <2>3. AtomView.from \in Int
    BY <1>4, <2>1, Zenon
  <2>4. AtomView.trust \in Int
    BY <1>3, <1>4, Zenon
  <2> QED
    BY <2>2, <2>3, <2>4
<1>7. QcView.from \in Int
  BY <1>2, <1>5
<1>8. QcView.to \in Int
  BY <1>1, <1>2, <1>5
<1>9. QcView.trust_min \in Int
  BY <1>2, <1>5
<1> QED
  BY <1>6, <1>7, <1>8, <1>9

(* A run does not change its arguments.                                    *)
LEMMA ArgumentsStay ==
  ASSUME [VmNext]_vmvars
  PROVE  body' = body /\ qc' = qc /\ code' = code
BY DEF VmNext, vmvars, OutOfBudget, Execute, Finish

LEMMA ViewsStay ==
  ASSUME body' = body, qc' = qc
  PROVE  /\ AtomView' = AtomView /\ QcView' = QcView /\ FirstTag' = FirstTag
         /\ Overlaps' <=> Overlaps
         /\ Trusted' <=> Trusted
         /\ InDomain' <=> InDomain
<1>1. AtomView' = AtomView
  BY DEF AtomView
<1>2. QcView' = QcView
  BY DEF QcView
<1> QED
  BY <1>1, <1>2 DEF FirstTag, Overlaps, Trusted, InDomain

-----------------------------------------------------------------------------
(* A run of a program that fits its budget and jumps forward.              *)

At(n) ==
    /\ ~halted /\ verdict = Running /\ pc = n /\ result = PASS
    /\ DOMAIN regs = 1..15 /\ steps \in Nat /\ steps <= n
Ends(res) ==
    /\ halted /\ result = res
    /\ verdict \in {Running, vm_result_to_abi(result, reason)}
Fits == Len(code) \in Nat /\ Len(code) <= MaxSteps

LEMMA RunsOn ==
  ASSUME VmNext, NEW n \in Nat, n < Len(code), Fits, At(n), NEW i, code[n + 1] = i
  PROVE  /\ \A rs : DOMAIN rs = 1..15 /\ execute_instruction(i) = {Next1(rs)} =>
                        At(n + 1)' /\ regs' = rs
         /\ \A res, why : execute_instruction(i) = {Halt(res, why)} => Ends(res)'
         /\ \A t \in Nat : execute_instruction(i) = {Jump(t, regs)} /\ n < t /\ t < Len(code) =>
                        At(t)' /\ regs' = regs
<1>1. Execute
  <2>1. ~Finish
    BY DEF Finish, At, Fits
  <2>2. ~OutOfBudget
    BY VmAssumption DEF OutOfBudget, At, Fits
  <2> QED
    BY <2>1, <2>2 DEF VmNext
<1>2. steps' = steps + 1
  BY <1>1 DEF Execute
<1>3. pc = n /\ result = PASS /\ DOMAIN regs = 1..15 /\ steps \in Nat /\ steps <= n
  BY DEF At
<1>4. ASSUME NEW rs, DOMAIN rs = 1..15, execute_instruction(i) = {Next1(rs)}
      PROVE  At(n + 1)' /\ regs' = rs
  <2>1. Goes(rs)
    BY <1>1, <1>3, <1>4, Executes
  <2> QED
    BY <1>2, <1>3, <1>4, <2>1 DEF Goes, At
<1>5. ASSUME NEW res, NEW why, execute_instruction(i) = {Halt(res, why)} PROVE Ends(res)'
  <2>1. Stops(res)
    BY <1>1, <1>3, <1>5, Executes
  <2> QED
    BY <2>1 DEF Stops, Ends
<1>6. ASSUME NEW t \in Nat, execute_instruction(i) = {Jump(t, regs)}, n < t, t < Len(code)
      PROVE  At(t)' /\ regs' = regs
  <2>1. Jumps(t)
    BY <1>1, <1>3, <1>6, Executes
  <2> QED
    BY <1>2, <1>3, <1>6, <2>1 DEF Jumps, At
<1> QED
  BY <1>4, <1>5, <1>6

LEMMA StaysEnded ==
  ASSUME VmNext, NEW res, Ends(res)
  PROVE  Ends(res)'
<1>1. Finish
  BY DEF VmNext, OutOfBudget, Execute, Ends
<1> QED
  BY <1>1 DEF Finish, Ends, vm_result_to_abi

LEMMA Unmoved ==
  ASSUME UNCHANGED vmvars
  PROVE  /\ \A n : At(n)' <=> At(n)
         /\ \A res : Ends(res)' <=> Ends(res)
         /\ regs' = regs
BY DEF vmvars, At, Ends, vm_result_to_abi

LEMMA IntoRegisters ==
  ASSUME DOMAIN regs = 1..15
  PROVE  \A v : /\ DOMAIN Into1(v) = 1..15 /\ Into1(v)[1] = v /\ Into1(v)[2] = regs[2]
                /\ DOMAIN Into2(v) = 1..15 /\ Into2(v)[1] = regs[1] /\ Into2(v)[2] = v
BY DEF Into1, Into2

-----------------------------------------------------------------------------
(* basic_invariant_program: three checks, then PASS.                       *)

Meets == Overlaps /\ Trusted /\ InDomain

BasicRun ==
    \/ At(0)
    \/ At(1) /\ Overlaps
    \/ At(2) /\ Overlaps /\ Trusted
    \/ At(3) /\ Meets
    \/ Ends(PASS) /\ Meets
    \/ Ends(FAIL_HARD) /\ ~Meets

(* The checks in terms of what they ask.                                   *)
LEMMA ChecksAsk ==
  ASSUME Given
  PROVE  /\ Overlaps => execute_instruction(Instr("CHK_TIME", 0, 0, 0)) = {Next1(regs)}
         /\ ~Overlaps => execute_instruction(Instr("CHK_TIME", 0, 0, 0)) = {Halt(FAIL_HARD, "TIME_INVALID")}
         /\ Trusted => execute_instruction(Instr("CHK_TRUST", 0, 0, 0)) = {Next1(regs)}
         /\ ~Trusted => execute_instruction(Instr("CHK_TRUST", 0, 0, 0)) = {Halt(FAIL_HARD, "TRUST_TOO_LOW")}
         /\ InDomain => execute_instruction(Instr("CHK_DOMAIN", 0, 0, 0)) = {Next1(regs)}
         /\ ~InDomain => execute_instruction(Instr("CHK_DOMAIN", 0, 0, 0)) = {Halt(FAIL_HARD, "DOMAIN_MISMATCH")}
<1>1. AtomView.trust < QcView.trust_min <=> ~Trusted
  <2>1. PICK a, b \in Int : a = AtomView.trust /\ b = QcView.trust_min
    BY ViewsAreNumbers
  <2> QED
    BY <2>1 DEF Trusted
<1> QED
  BY <1>1, ChecksMean

LEMMA BasicStep ==
  ASSUME code = basic_invariant_program, Given, Fits, BasicRun, [VmNext]_vmvars
  PROVE  BasicRun'
<1>1. /\ Overlaps' <=> Overlaps
      /\ Trusted' <=> Trusted
      /\ InDomain' <=> InDomain
      /\ Meets' <=> Meets
  BY ArgumentsStay, ViewsStay DEF Meets
<1>2. /\ Len(code) = 4
      /\ code[1] = Instr("CHK_TIME", 0, 0, 0)
      /\ code[2] = Instr("CHK_TRUST", 0, 0, 0)
      /\ code[3] = Instr("CHK_DOMAIN", 0, 0, 0)
      /\ code[4] = Instr("RET", PASS, 0, 0)
  BY DEF basic_invariant_program
<1>3. CASE UNCHANGED vmvars
  BY <1>1, <1>3, Unmoved DEF BasicRun
<1>4. CASE VmNext
  <2>1. ASSUME At(0) PROVE (Overlaps /\ At(1)') \/ (~Overlaps /\ Ends(FAIL_HARD)')
    <3>1. code[0 + 1] = Instr("CHK_TIME", 0, 0, 0) /\ 0 \in Nat /\ 0 < Len(code) /\ DOMAIN regs = 1..15
      BY <1>2, <2>1 DEF At
    <3>2. /\ \A rs : DOMAIN rs = 1..15 /\ execute_instruction(Instr("CHK_TIME", 0, 0, 0)) = {Next1(rs)} => At(0 + 1)'
          /\ \A res, why : execute_instruction(Instr("CHK_TIME", 0, 0, 0)) = {Halt(res, why)} => Ends(res)'
      BY <1>4, <2>1, <3>1, RunsOn
    <3> QED
      BY <3>1, <3>2, ChecksAsk
  <2>2. ASSUME At(1) PROVE (Trusted /\ At(2)') \/ (~Trusted /\ Ends(FAIL_HARD)')
    <3>1. code[1 + 1] = Instr("CHK_TRUST", 0, 0, 0) /\ 1 \in Nat /\ 1 < Len(code) /\ DOMAIN regs = 1..15
      BY <1>2, <2>2 DEF At
    <3>2. /\ \A rs : DOMAIN rs = 1..15 /\ execute_instruction(Instr("CHK_TRUST", 0, 0, 0)) = {Next1(rs)} => At(1 + 1)'
          /\ \A res, why : execute_instruction(Instr("CHK_TRUST", 0, 0, 0)) = {Halt(res, why)} => Ends(res)'
      BY <1>4, <2>2, <3>1, RunsOn
    <3> QED
      BY <3>1, <3>2, ChecksAsk
  <2>3. ASSUME At(2) PROVE (InDomain /\ At(3)') \/ (~InDomain /\ Ends(FAIL_HARD)')
    <3>1. code[2 + 1] = Instr("CHK_DOMAIN", 0, 0, 0) /\ 2 \in Nat /\ 2 < Len(code) /\ DOMAIN regs = 1..15
      BY <1>2, <2>3 DEF At
    <3>2. /\ \A rs : DOMAIN rs = 1..15 /\ execute_instruction(Instr("CHK_DOMAIN", 0, 0, 0)) = {Next1(rs)} => At(2 + 1)'
          /\ \A res, why : execute_instruction(Instr("CHK_DOMAIN", 0, 0, 0)) = {Halt(res, why)} => Ends(res)'
      BY <1>4, <2>3, <3>1, RunsOn
    <3> QED
      BY <3>1, <3>2, ChecksAsk
  <2>4. ASSUME At(3) PROVE Ends(PASS)'
    <3>1. code[3 + 1] = Instr("RET", PASS, 0, 0) /\ 3 \in Nat /\ 3 < Len(code) /\ DOMAIN regs = 1..15
      BY <1>2, <2>4 DEF At
    <3>2. \A res, why : execute_instruction(Instr("RET", PASS, 0, 0)) = {Halt(res, why)} => Ends(res)'
      BY <1>4, <2>4, <3>1, RunsOn
    <3> QED
      BY <3>1, <3>2, JumpsMean
  <2>5. \A res : Ends(res) => Ends(res)'
    BY <1>4, StaysEnded
  <2> QED
    BY <1>1, <2>1, <2>2, <2>3, <2>4, <2>5 DEF BasicRun, Meets
<1> QED
  BY <1>3, <1>4

(* trust_threshold_program: load both, compare, jump over PASS.            *)
TrustRun ==
    \/ At(0)
    \/ At(1) /\ regs[1] = AtomView.trust
    \/ At(2) /\ regs[1] = AtomView.trust /\ regs[2] = QcView.trust_min
    \/ At(3) /\ regs[1] = Bool(Trusted)
    \/ At(4) /\ Trusted
    \/ At(5) /\ ~Trusted
    \/ Ends(PASS) /\ Trusted
    \/ Ends(FAIL_HARD) /\ ~Trusted

LEMMA TrustStep ==
  ASSUME code = trust_threshold_program, Given, Fits, TrustRun, [VmNext]_vmvars
  PROVE  TrustRun'
<1>1. /\ AtomView' = AtomView /\ QcView' = QcView
      /\ Trusted' <=> Trusted
  BY ArgumentsStay, ViewsStay
<1>2. /\ Len(code) = 6
      /\ code[1] = Instr("LD_ATOM_META", 1, 3, 0)
      /\ code[2] = Instr("LD_QC", 2, 2, 0)
      /\ code[3] = Instr("GE", 1, 2, 0)
      /\ code[4] = Instr("JZ", 1, 5, 0)
      /\ code[5] = Instr("RET", PASS, 0, 0)
      /\ code[6] = Instr("RET", FAIL_HARD, 0, 0)
  BY DEF trust_threshold_program
<1>3. CASE UNCHANGED vmvars
  BY <1>1, <1>3, Unmoved DEF TrustRun
<1>4. CASE VmNext
  <2>1. ASSUME At(0) PROVE At(1)' /\ regs'[1] = AtomView.trust
    <3>1. code[0 + 1] = Instr("LD_ATOM_META", 1, 3, 0) /\ 0 \in Nat /\ 0 < Len(code) /\ DOMAIN regs = 1..15
      BY <1>2, <2>1 DEF At
    <3>2. \A rs : DOMAIN rs = 1..15 /\ execute_instruction(Instr("LD_ATOM_META", 1, 3, 0)) = {Next1(rs)} => At(0 + 1)' /\ regs' = rs
      BY <1>4, <2>1, <3>1, RunsOn
    <3> QED
      BY <3>1, <3>2, LoadsMean, IntoRegisters
  <2>2. ASSUME At(1) PROVE At(2)' /\ regs'[1] = regs[1] /\ regs'[2] = QcView.trust_min
    <3>1. code[1 + 1] = Instr("LD_QC", 2, 2, 0) /\ 1 \in Nat /\ 1 < Len(code) /\ DOMAIN regs = 1..15
      BY <1>2, <2>2 DEF At
    <3>2. \A rs : DOMAIN rs = 1..15 /\ execute_instruction(Instr("LD_QC", 2, 2, 0)) = {Next1(rs)} => At(1 + 1)' /\ regs' = rs
      BY <1>4, <2>2, <3>1, RunsOn
    <3> QED
      BY <3>1, <3>2, LoadsMean, IntoRegisters
  <2>3. ASSUME At(2) PROVE At(3)' /\ regs'[1] = Bool(regs[1] >= regs[2])
    <3>1. code[2 + 1] = Instr("GE", 1, 2, 0) /\ 2 \in Nat /\ 2 < Len(code) /\ DOMAIN regs = 1..15
      BY <1>2, <2>3 DEF At
    <3>2. \A rs : DOMAIN rs = 1..15 /\ execute_instruction(Instr("GE", 1, 2, 0)) = {Next1(rs)} => At(2 + 1)' /\ regs' = rs
      BY <1>4, <2>3, <3>1, RunsOn
    <3> QED
      BY <3>1, <3>2, ComparisonsMean, IntoRegisters
  <2>4. ASSUME At(3) PROVE (regs[1] = 0 /\ At(5)') \/ (regs[1] # 0 /\ At(4)')
    <3>1. code[3 + 1] = Instr("JZ", 1, 5, 0) /\ 3 \in Nat /\ 3 < Len(code) /\ DOMAIN regs = 1..15
      BY <1>2, <2>4 DEF At
    <3>2. /\ \A rs : DOMAIN rs = 1..15 /\ execute_instruction(Instr("JZ", 1, 5, 0)) = {Next1(rs)} => At(3 + 1)'
          /\ execute_instruction(Instr("JZ", 1, 5, 0)) = {Jump(5, regs)} => At(5)'
      BY <1>2, <1>4, <2>4, <3>1, RunsOn
    <3> QED
      BY <3>1, <3>2, JumpsMean
  <2>5. ASSUME At(4) PROVE Ends(PASS)'
    <3>1. code[4 + 1] = Instr("RET", PASS, 0, 0) /\ 4 \in Nat /\ 4 < Len(code) /\ DOMAIN regs = 1..15
      BY <1>2, <2>5 DEF At
    <3>2. \A res, why : execute_instruction(Instr("RET", PASS, 0, 0)) = {Halt(res, why)} => Ends(res)'
      BY <1>4, <2>5, <3>1, RunsOn
    <3> QED
      BY <3>1, <3>2, JumpsMean
  <2>6. ASSUME At(5) PROVE Ends(FAIL_HARD)'
    <3>1. code[5 + 1] = Instr("RET", FAIL_HARD, 0, 0) /\ 5 \in Nat /\ 5 < Len(code) /\ DOMAIN regs = 1..15
      BY <1>2, <2>6 DEF At
    <3>2. \A res, why : execute_instruction(Instr("RET", FAIL_HARD, 0, 0)) = {Halt(res, why)} => Ends(res)'
      BY <1>4, <2>6, <3>1, RunsOn
    <3> QED
      BY <3>1, <3>2, JumpsMean
  <2>7. \A res : Ends(res) => Ends(res)'
    BY <1>4, StaysEnded
  <2>8. regs[1] = AtomView.trust /\ regs[2] = QcView.trust_min => Bool(regs[1] >= regs[2]) = Bool(Trusted)
    BY DEF Trusted
  <2>9. \A b \in BOOLEAN : Bool(b) = 0 <=> ~b
    BY DEF Bool
  <2> QED
    BY <1>1, <2>1, <2>2, <2>3, <2>4, <2>5, <2>6, <2>7, <2>8, <2>9 DEF TrustRun, Bool
<1> QED
  BY <1>3, <1>4

(* time_range_program: one bound after the other, over PASS if one fails.  *)
StartsBefore == AtomView.from < QcView.to
EndsAfter == QcView.from < AtomView.to

TimeRun ==
    \/ At(0)
    \/ At(1) /\ regs[1] = AtomView.from
    \/ At(2) /\ regs[1] = AtomView.from /\ regs[2] = QcView.to
    \/ At(3) /\ regs[1] = Bool(StartsBefore)
    \/ At(4) /\ StartsBefore
    \/ At(5) /\ StartsBefore /\ regs[1] = AtomView.to
    \/ At(6) /\ StartsBefore /\ regs[1] = AtomView.to /\ regs[2] = QcView.from
    \/ At(7) /\ StartsBefore /\ regs[1] = Bool(EndsAfter)
    \/ At(8) /\ Overlaps
    \/ At(9) /\ ~Overlaps
    \/ Ends(PASS) /\ Overlaps
    \/ Ends(FAIL_HARD) /\ ~Overlaps

LEMMA TimeStep ==
  ASSUME code = time_range_program, Given, Fits, TimeRun, [VmNext]_vmvars
  PROVE  TimeRun'
<1>1. /\ AtomView' = AtomView /\ QcView' = QcView
      /\ Overlaps' <=> Overlaps
      /\ StartsBefore' <=> StartsBefore
      /\ EndsAfter' <=> EndsAfter
  BY ArgumentsStay, ViewsStay DEF StartsBefore, EndsAfter
<1>2. /\ Len(code) = 10
      /\ code[1] = Instr("LD_ATOM_META", 1, 0, 0)
      /\ code[2] = Instr("LD_QC", 2, 1, 0)
      /\ code[3] = Instr("LT", 1, 2, 0)
      /\ code[4] = Instr("JZ", 1, 9, 0)
      /\ code[5] = Instr("LD_ATOM_META", 1, 1, 0)
      /\ code[6] = Instr("LD_QC", 2, 0, 0)
      /\ code[7] = Instr("GT", 1, 2, 0)
      /\ code[8] = Instr("JZ", 1, 9, 0)
      /\ code[9] = Instr("RET", PASS, 0, 0)
      /\ code[10] = Instr("RET", FAIL_HARD, 0, 0)
  BY DEF time_range_program
<1>3. CASE UNCHANGED vmvars
  <2>1. regs' = regs /\ AtomView' = AtomView /\ QcView' = QcView
    BY <1>1, <1>3, Unmoved
  <2>2. Bool(StartsBefore') = Bool(StartsBefore) /\ Bool(EndsAfter') = Bool(EndsAfter)
    BY <1>1 DEF Bool
  <2> QED
    BY <1>1, <1>3, <2>1, <2>2, Unmoved DEF TimeRun
<1>4. CASE VmNext
  <2>1. ASSUME At(0) PROVE At(1)' /\ regs'[1] = AtomView.from
    <3>1. code[0 + 1] = Instr("LD_ATOM_META", 1, 0, 0) /\ 0 \in Nat /\ 0 < Len(code) /\ DOMAIN regs = 1..15
      BY <1>2, <2>1 DEF At
    <3>2. \A rs : DOMAIN rs = 1..15 /\ execute_instruction(Instr("LD_ATOM_META", 1, 0, 0)) = {Next1(rs)} => At(0 + 1)' /\ regs' = rs
      BY <1>4, <2>1, <3>1, RunsOn
    <3> QED
      BY <3>1, <3>2, LoadsMean, IntoRegisters
  <2>2. ASSUME At(1) PROVE At(2)' /\ regs'[1] = regs[1] /\ regs'[2] = QcView.to
    <3>1. code[1 + 1] = Instr("LD_QC", 2, 1, 0) /\ 1 \in Nat /\ 1 < Len(code) /\ DOMAIN regs = 1..15
      BY <1>2, <2>2 DEF At
    <3>2. \A rs : DOMAIN rs = 1..15 /\ execute_instruction(Instr("LD_QC", 2, 1, 0)) = {Next1(rs)} => At(1 + 1)' /\ regs' = rs
      BY <1>4, <2>2, <3>1, RunsOn
    <3> QED
      BY <3>1, <3>2, LoadsMean, IntoRegisters
  <2>3. ASSUME At(2) PROVE At(3)' /\ regs'[1] = Bool(regs[1] < regs[2])
    <3>1. code[2 + 1] = Instr("LT", 1, 2, 0) /\ 2 \in Nat /\ 2 < Len(code) /\ DOMAIN regs = 1..15
      BY <1>2, <2>3 DEF At
    <3>2. \A rs : DOMAIN rs = 1..15 /\ execute_instruction(Instr("LT", 1, 2, 0)) = {Next1(rs)} => At(2 + 1)' /\ regs' = rs
      BY <1>4, <2>3, <3>1, RunsOn
    <3> QED
      BY <3>1, <3>2, ComparisonsMean, IntoRegisters
  <2>4. ASSUME At(3) PROVE (regs[1] = 0 /\ At(9)') \/ (regs[1] # 0 /\ At(4)')
    <3>1. code[3 + 1] = Instr("JZ", 1, 9, 0) /\ 3 \in Nat /\ 3 < Len(code) /\ DOMAIN regs = 1..15
      BY <1>2, <2>4 DEF At
    <3>2. /\ \A rs : DOMAIN rs = 1..15 /\ execute_instruction(Instr("JZ", 1, 9, 0)) = {Next1(rs)} => At(3 + 1)'
          /\ execute_instruction(Instr("JZ", 1, 9, 0)) = {Jump(9, regs)} => At(9)'
      BY <1>2, <1>4, <2>4, <3>1, RunsOn
    <3> QED
      BY <3>1, <3>2, JumpsMean
  <2>5. ASSUME At(4) PROVE At(5)' /\ regs'[1] = AtomView.to
    <3>1. code[4 + 1] = Instr("LD_ATOM_META", 1, 1, 0) /\ 4 \in Nat /\ 4 < Len(code) /\ DOMAIN regs = 1..15
      BY <1>2, <2>5 DEF At
    <3>2. \A rs : DOMAIN rs = 1..15 /\ execute_instruction(Instr("LD_ATOM_META", 1, 1, 0)) = {Next1(rs)} => At(4 + 1)' /\ regs' = rs
      BY <1>4, <2>5, <3>1, RunsOn
    <3> QED
      BY <3>1, <3>2, LoadsMean, IntoRegisters
  <2>6. ASSUME At(5) PROVE At(6)' /\ regs'[1] = regs[1] /\ regs'[2] = QcView.from
    <3>1. code[5 + 1] = Instr("LD_QC", 2, 0, 0) /\ 5 \in Nat /\ 5 < Len(code) /\ DOMAIN regs = 1..15
      BY <1>2, <2>6 DEF At
    <3>2. \A rs : DOMAIN rs = 1..15 /\ execute_instruction(Instr("LD_QC", 2, 0, 0)) = {Next1(rs)} => At(5 + 1)' /\ regs' = rs
      BY <1>4, <2>6, <3>1, RunsOn
    <3> QED
      BY <3>1, <3>2, LoadsMean, IntoRegisters
  <2>7. ASSUME At(6) PROVE At(7)' /\ regs'[1] = Bool(regs[1] > regs[2])
    <3>1. code[6 + 1] = Instr("GT", 1, 2, 0) /\ 6 \in Nat /\ 6 < Len(code) /\ DOMAIN regs = 1..15
      BY <1>2, <2>7 DEF At
    <3>2. \A rs : DOMAIN rs = 1..15 /\ execute_instruction(Instr("GT", 1, 2, 0)) = {Next1(rs)} => At(6 + 1)' /\ regs' = rs
      BY <1>4, <2>7, <3>1, RunsOn
    <3> QED
      BY <3>1, <3>2, ComparisonsMean, IntoRegisters
  <2>8. ASSUME At(7) PROVE (regs[1] = 0 /\ At(9)') \/ (regs[1] # 0 /\ At(8)')
    <3>1. code[7 + 1] = Instr("JZ", 1, 9, 0) /\ 7 \in Nat /\ 7 < Len(code) /\ DOMAIN regs = 1..15
      BY <1>2, <2>8 DEF At
    <3>2. /\ \A rs : DOMAIN rs = 1..15 /\ execute_instruction(Instr("JZ", 1, 9, 0)) = {Next1(rs)} => At(7 + 1)'
          /\ execute_instruction(Instr("JZ", 1, 9, 0)) = {Jump(9, regs)} => At(9)'
      BY <1>2, <1>4, <2>8, <3>1, RunsOn
    <3> QED
      BY <3>1, <3>2, JumpsMean
  <2>9. ASSUME At(8) PROVE Ends(PASS)'
    <3>1. code[8 + 1] = Instr("RET", PASS, 0, 0) /\ 8 \in Nat /\ 8 < Len(code) /\ DOMAIN regs = 1..15
      BY <1>2, <2>9 DEF At
    <3>2. \A res, why : execute_instruction(Instr("RET", PASS, 0, 0)) = {Halt(res, why)} => Ends(res)'
      BY <1>4, <2>9, <3>1, RunsOn
    <3> QED
      BY <3>1, <3>2, JumpsMean
  <2>10. ASSUME At(9) PROVE Ends(FAIL_HARD)'
    <3>1. code[9 + 1] = Instr("RET", FAIL_HARD, 0, 0) /\ 9 \in Nat /\ 9 < Len(code) /\ DOMAIN regs = 1..15
      BY <1>2, <2>10 DEF At
    <3>2. \A res, why : execute_instruction(Instr("RET", FAIL_HARD, 0, 0)) = {Halt(res, why)} => Ends(res)'
      BY <1>4, <2>10, <3>1, RunsOn
    <3> QED
      BY <3>1, <3>2, JumpsMean
  <2>11. \A res : Ends(res) => Ends(res)'
    BY <1>4, StaysEnded
  <2>12. regs[1] = AtomView.from /\ regs[2] = QcView.to => Bool(regs[1] < regs[2]) = Bool(StartsBefore)
    BY DEF StartsBefore
  <2>13. regs[1] = AtomView.to /\ regs[2] = QcView.from => Bool(regs[1] > regs[2]) = Bool(EndsAfter)
    <3>1. PICK a, b \in Int : a = AtomView.to /\ b = QcView.from
      BY ViewsAreNumbers
    <3>2. a > b <=> b < a
      OBVIOUS
    <3> QED
      BY <3>1, <3>2 DEF EndsAfter, Bool
  <2>14. Overlaps <=> StartsBefore /\ EndsAfter
    BY DEF Overlaps, StartsBefore, EndsAfter
  <2>15. \A b \in BOOLEAN : Bool(b) = 0 <=> ~b
    BY DEF Bool
  <2> QED
    BY <1>1, <2>1, <2>2, <2>3, <2>4, <2>5, <2>6, <2>7, <2>8, <2>9, <2>10, <2>11, <2>12, <2>13, <2>14, <2>15 DEF TimeRun, Bool
<1> QED
  BY <1>3, <1>4

(* full_validation_program: the checks, an allowed source, the first tag.  *)
FullRun(t) ==
    \/ At(0)
    \/ At(1) /\ Overlaps
    \/ At(2) /\ Overlaps /\ Trusted
    \/ At(3) /\ Meets
    \/ At(4) /\ Meets
    \/ At(5) /\ Meets /\ regs[1] = FirstTag
    \/ At(6) /\ Meets /\ regs[1] = Bool(FirstTag = t)
    \/ At(7) /\ Meets /\ FirstTag = t
    \/ At(8)
    \/ Ends(PASS) /\ Meets /\ FirstTag = t
    \/ Ends(FAIL_HARD)

LEMMA FullStep ==
  ASSUME NEW t \in 0..255, code = full_validation_program(t), Given, Fits, FullRun(t), [VmNext]_vmvars
  PROVE  FullRun(t)'
<1>1. /\ Overlaps' <=> Overlaps
      /\ Trusted' <=> Trusted
      /\ InDomain' <=> InDomain
      /\ FirstTag' = FirstTag
      /\ Meets' <=> Meets
  BY ArgumentsStay, ViewsStay DEF Meets
<1>2. /\ Len(code) = 9
      /\ code[1] = Instr("CHK_TIME", 0, 0, 0)
      /\ code[2] = Instr("CHK_TRUST", 0, 0, 0)
      /\ code[3] = Instr("CHK_DOMAIN", 0, 0, 0)
      /\ code[4] = Instr("CHK_SOURCE", 0, 0, 0)
      /\ code[5] = Instr("LD_CLAIM", 1, 1 + 2 * ClaimShift, 0)
      /\ code[6] = Instr("IS_TAG", 1, 0, t)
      /\ code[7] = Instr("JZ", 1, 8, 0)
      /\ code[8] = Instr("RET", PASS, 0, 0)
      /\ code[9] = Instr("RET", FAIL_HARD, 0, 0)
  BY DEF full_validation_program
<1>3. CASE UNCHANGED vmvars
  BY <1>1, <1>3, Unmoved DEF FullRun
<1>4. CASE VmNext
  <2>1. ASSUME At(0) PROVE (Overlaps /\ At(1)') \/ Ends(FAIL_HARD)'
    <3>1. code[0 + 1] = Instr("CHK_TIME", 0, 0, 0) /\ 0 \in Nat /\ 0 < Len(code) /\ DOMAIN regs = 1..15
      BY <1>2, <2>1 DEF At
    <3>2. /\ \A rs : DOMAIN rs = 1..15 /\ execute_instruction(Instr("CHK_TIME", 0, 0, 0)) = {Next1(rs)} => At(0 + 1)'
          /\ \A res, why : execute_instruction(Instr("CHK_TIME", 0, 0, 0)) = {Halt(res, why)} => Ends(res)'
      BY <1>4, <2>1, <3>1, RunsOn
    <3> QED
      BY <3>1, <3>2, ChecksAsk
  <2>2. ASSUME At(1) PROVE (Trusted /\ At(2)') \/ Ends(FAIL_HARD)'
    <3>1. code[1 + 1] = Instr("CHK_TRUST", 0, 0, 0) /\ 1 \in Nat /\ 1 < Len(code) /\ DOMAIN regs = 1..15
      BY <1>2, <2>2 DEF At
    <3>2. /\ \A rs : DOMAIN rs = 1..15 /\ execute_instruction(Instr("CHK_TRUST", 0, 0, 0)) = {Next1(rs)} => At(1 + 1)'
          /\ \A res, why : execute_instruction(Instr("CHK_TRUST", 0, 0, 0)) = {Halt(res, why)} => Ends(res)'
      BY <1>4, <2>2, <3>1, RunsOn
    <3> QED
      BY <3>1, <3>2, ChecksAsk
  <2>3. ASSUME At(2) PROVE (InDomain /\ At(3)') \/ Ends(FAIL_HARD)'
    <3>1. code[2 + 1] = Instr("CHK_DOMAIN", 0, 0, 0) /\ 2 \in Nat /\ 2 < Len(code) /\ DOMAIN regs = 1..15
      BY <1>2, <2>3 DEF At
    <3>2. /\ \A rs : DOMAIN rs = 1..15 /\ execute_instruction(Instr("CHK_DOMAIN", 0, 0, 0)) = {Next1(rs)} => At(2 + 1)'
          /\ \A res, why : execute_instruction(Instr("CHK_DOMAIN", 0, 0, 0)) = {Halt(res, why)} => Ends(res)'
      BY <1>4, <2>3, <3>1, RunsOn
    <3> QED
      BY <3>1, <3>2, ChecksAsk
  <2>4. ASSUME At(3) PROVE At(4)' \/ Ends(FAIL_HARD)'
    <3>1. code[3 + 1] = Instr("CHK_SOURCE", 0, 0, 0) /\ 3 \in Nat /\ 3 < Len(code) /\ DOMAIN regs = 1..15
      BY <1>2, <2>4 DEF At
    <3>2. /\ \A rs : DOMAIN rs = 1..15 /\ execute_instruction(Instr("CHK_SOURCE", 0, 0, 0)) = {Next1(rs)} => At(3 + 1)'
          /\ \A res, why : execute_instruction(Instr("CHK_SOURCE", 0, 0, 0)) = {Halt(res, why)} => Ends(res)'
      BY <1>4, <2>4, <3>1, RunsOn
    <3> QED
      BY <3>1, <3>2, ChecksMean
  <2>5. ASSUME At(4) PROVE At(5)' /\ regs'[1] = FirstTag
    <3>1. code[4 + 1] = Instr("LD_CLAIM", 1, 1 + 2 * ClaimShift, 0) /\ 4 \in Nat /\ 4 < Len(code) /\ DOMAIN regs = 1..15
      BY <1>2, <2>5 DEF At
    <3>2. \A rs : DOMAIN rs = 1..15 /\ execute_instruction(Instr("LD_CLAIM", 1, 1 + 2 * ClaimShift, 0)) = {Next1(rs)} => At(4 + 1)' /\ regs' = rs
      BY <1>4, <2>5, <3>1, RunsOn
    <3> QED
      BY <3>1, <3>2, ClaimMeans, IntoRegisters
  <2>6. ASSUME At(5) PROVE At(6)' /\ regs'[1] = Bool(regs[1] = t)
    <3>1. code[5 + 1] = Instr("IS_TAG", 1, 0, t) /\ 5 \in Nat /\ 5 < Len(code) /\ DOMAIN regs = 1..15
      BY <1>2, <2>6 DEF At
    <3>2. \A rs : DOMAIN rs = 1..15 /\ execute_instruction(Instr("IS_TAG", 1, 0, t)) = {Next1(rs)} => At(5 + 1)' /\ regs' = rs
      BY <1>4, <2>6, <3>1, RunsOn
    <3>3. PICK v : v = Bool(regs[1] = t)
      OBVIOUS
    <3>4. execute_instruction(Instr("IS_TAG", 1, 0, t)) = {Next1(Into1(v))}
      BY <3>3, ComparisonsMean
    <3> QED
      BY <3>1, <3>2, <3>3, <3>4, IntoRegisters
  <2>7. ASSUME At(6) PROVE (regs[1] = 0 /\ At(8)') \/ (regs[1] # 0 /\ At(7)')
    <3>1. code[6 + 1] = Instr("JZ", 1, 8, 0) /\ 6 \in Nat /\ 6 < Len(code) /\ DOMAIN regs = 1..15
      BY <1>2, <2>7 DEF At
    <3>2. /\ \A rs : DOMAIN rs = 1..15 /\ execute_instruction(Instr("JZ", 1, 8, 0)) = {Next1(rs)} => At(6 + 1)'
          /\ execute_instruction(Instr("JZ", 1, 8, 0)) = {Jump(8, regs)} => At(8)'
      BY <1>2, <1>4, <2>7, <3>1, RunsOn
    <3> QED
      BY <3>1, <3>2, JumpsMean
  <2>8. ASSUME At(7) PROVE Ends(PASS)'
    <3>1. code[7 + 1] = Instr("RET", PASS, 0, 0) /\ 7 \in Nat /\ 7 < Len(code) /\ DOMAIN regs = 1..15
      BY <1>2, <2>8 DEF At
    <3>2. \A res, why : execute_instruction(Instr("RET", PASS, 0, 0)) = {Halt(res, why)} => Ends(res)'
      BY <1>4, <2>8, <3>1, RunsOn
    <3> QED
      BY <3>1, <3>2, JumpsMean
  <2>9. ASSUME At(8) PROVE Ends(FAIL_HARD)'
    <3>1. code[8 + 1] = Instr("RET", FAIL_HARD, 0, 0) /\ 8 \in Nat /\ 8 < Len(code) /\ DOMAIN regs = 1..15
      BY <1>2, <2>9 DEF At
    <3>2. \A res, why : execute_instruction(Instr("RET", FAIL_HARD, 0, 0)) = {Halt(res, why)} => Ends(res)'
      BY <1>4, <2>9, <3>1, RunsOn
    <3> QED
      BY <3>1, <3>2, JumpsMean
  <2>10. \A res : Ends(res) => Ends(res)'
    BY <1>4, StaysEnded
  <2> QED
    BY <1>1, <2>1, <2>2, <2>3, <2>4, <2>5, <2>6, <2>7, <2>8, <2>9, <2>10 DEF FullRun, Meets, Bool
<1> QED
  BY <1>3, <1>4

-----------------------------------------------------------------------------
(* The verdicts.                                                           *)

Judged ==
    /\ Given
    /\ code # <<>> => Fits
    /\ code = basic_invariant_program => BasicRun
    /\ code = trust_threshold_program => TrustRun
    /\ code = time_range_program => TimeRun
    /\ \A t \in 0..255 : code = full_validation_program(t) => FullRun(t)

LEMMA ProgramsNotEmpty ==
  /\ basic_invariant_program # <<>> /\ trust_threshold_program # <<>>
  /\ time_range_program # <<>> /\ \A t : full_validation_program(t) # <<>>
<1>1. basic_invariant_program # <<>>
  BY DEF basic_invariant_program
<1>2. trust_threshold_program # <<>>
  BY DEF trust_threshold_program
<1>3. time_range_program # <<>>
  BY DEF time_range_program
<1>4. \A t : full_validation_program(t) # <<>>
  BY DEF full_validation_program
<1> QED
  BY <1>1, <1>2, <1>3, <1>4

LEMMA JudgedStarts == VmInit => Judged
<1> SUFFICES ASSUME NEW b \in Bodies, NEW q \in Queries, NEW x, BeginEval(b, q, x)
             PROVE  Judged
  BY DEF VmInit
<1>1. /\ body = b /\ qc = q /\ verdict = Early(b)
      /\ code = IF verdict = Running THEN b.inv.code ELSE <<>>
      /\ pc = 0 /\ regs = [r \in 1..15 |-> 0] /\ steps = 0
      /\ result = PASS /\ halted = FALSE
  BY DEF BeginEval
<1>2. Given
  BY <1>1 DEF Given
<1>3. ASSUME code # <<>> PROVE Fits /\ At(0)
  <2>1. verdict = Running /\ code = b.inv.code
    BY <1>1, <1>3
  <2>2. code \in Seq(Instruction) /\ validate(code)
    BY <1>1, <2>1, EarlyRuns
  <2>3. Len(code) \in Nat /\ Len(code) * 3 <= MaxSteps
    BY <2>2 DEF validate
  <2>4. Len(code) <= MaxSteps
    BY <2>3, VmAssumption
  <2> QED
    BY <1>1, <2>1, <2>3, <2>4 DEF Fits, At
<1> QED
  BY <1>2, <1>3, ProgramsNotEmpty DEF Judged, BasicRun, TrustRun, TimeRun, FullRun

LEMMA JudgedStep == Judged /\ [VmNext]_vmvars => Judged'
<1> SUFFICES ASSUME Judged, [VmNext]_vmvars PROVE Judged'
  OBVIOUS
<1>1. body' = body /\ qc' = qc /\ code' = code
  BY ArgumentsStay
<1>2. Given'
  BY <1>1 DEF Judged, Given
<1>3. code # <<>> => Given /\ Fits /\ Fits'
  BY <1>1 DEF Judged, Fits
<1>4. code = basic_invariant_program => BasicRun'
  BY <1>3, BasicStep, ProgramsNotEmpty DEF Judged
<1>5. code = trust_threshold_program => TrustRun'
  BY <1>3, TrustStep, ProgramsNotEmpty DEF Judged
<1>6. code = time_range_program => TimeRun'
  BY <1>3, TimeStep, ProgramsNotEmpty DEF Judged
<1>7. \A t \in 0..255 : code = full_validation_program(t) => FullRun(t)'
  BY <1>3, FullStep, ProgramsNotEmpty DEF Judged
<1>8. /\ basic_invariant_program' = basic_invariant_program
      /\ trust_threshold_program' = trust_threshold_program
      /\ time_range_program' = time_range_program
  BY DEF basic_invariant_program, trust_threshold_program, time_range_program, Instr
<1>9. \A t : full_validation_program(t)' = full_validation_program(t)
  BY DEF full_validation_program, Instr
<1> QED
  BY <1>1, <1>2, <1>3, <1>4, <1>5, <1>6, <1>7, <1>8, <1>9 DEF Judged

(* For any bodies, queries and budget: when a run of the checking, range   *)
(* and threshold programs ends, it passes exactly the atoms that meet the  *)
(* query's constraints (eval_invariants, execute_instruction, the program  *)
(* builders), and the full program passes no atom that fails one of them.  *)
THEOREM VerdictsMatch == VmSpec => []VerdictMatchesConstraints
<1>1. Judged => VerdictMatchesConstraints
  <2> SUFFICES ASSUME Judged, verdict # Running PROVE VerdictMatchesConstraints
    BY DEF VerdictMatchesConstraints
  <2>1. \A n : ~At(n)
    BY DEF At
  <2>2. \A res : Ends(res) => result = res /\ verdict = vm_result_to_abi(res, reason)
    BY DEF Ends
  <2>3. /\ Ends(PASS) => verdict = Pass
        /\ Ends(FAIL_HARD) => verdict # Pass
    BY <2>2 DEF Pass, vm_result_to_abi, PASS, FAIL_SOFT, FAIL_HARD
  <2>4. code = basic_invariant_program => (verdict = Pass <=> Meets)
    BY <2>1, <2>3 DEF Judged, BasicRun
  <2>5. code = trust_threshold_program => (verdict = Pass <=> Trusted)
    BY <2>1, <2>3 DEF Judged, TrustRun
  <2>6. code = time_range_program => (verdict = Pass <=> Overlaps)
    BY <2>1, <2>3 DEF Judged, TimeRun
  <2>7. ASSUME NEW t \in 0..255, code = full_validation_program(t), verdict = Pass
        PROVE  Meets /\ FirstTag = code[6].imm
    <3>1. FullRun(t)
      BY <2>7 DEF Judged
    <3>2. Meets /\ FirstTag = t
      BY <2>1, <2>3, <2>7, <3>1 DEF FullRun
    <3>3. code[6] = Instr("IS_TAG", 1, 0, t)
      BY <2>7 DEF full_validation_program
    <3> QED
      BY <3>2, <3>3 DEF Instr
  <2> QED
    BY <2>4, <2>5, <2>6, <2>7 DEF VerdictMatchesConstraints, Meets
<1> QED
  BY <1>1, JudgedStarts, JudgedStep, PTL DEF VmSpec
=============================================================================
