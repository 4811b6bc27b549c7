----------------------------- MODULE InvariantVm -----------------------------
(***************************************************************************)
(* The invariant virtual machine (src/vm/interpreter.rs) and its entry     *)
(* point (src/vm/abi.rs): the bytecode that an atom carries in its         *)
(* INVARIANTS section is validated and run against the atom, the query's   *)
(* constraints and the conflicts of the context; the verdict decides       *)
(* whether the solver may use the atom.                                    *)
(*                                                                         *)
(* Machine words have WordBits bits (64 in the code).  An instruction is   *)
(* [op, a, b, imm]; a program is a sequence of them, addressed from 0.     *)
(* The bytes of a body are abstracted to the parts that its parsers tell   *)
(* apart.                                                                  *)
(***************************************************************************)
EXTENDS ConflictIndex

CONSTANTS
    MaxSteps,   \* the step budget given to VmInterpreter::new
    Bodies,     \* atom bodies that are evaluated
    Queries,    \* constraints they are evaluated under
    Indexes     \* conflict indexes of the context

ASSUME VmAssumption == MaxSteps \in Nat

VARIABLES
    body, qc, ctx,          \* the arguments of eval_invariants
    code, pool,             \* what was decoded from the section
    pc, regs, steps,        \* VmInterpreter.pc, registers, step_count
    result, reason, halted, \* VmInterpreter.result, reason, halted
    verdict                 \* what eval_invariants returned, or Running

vmvars == <<body, qc, ctx, code, pool, pc, regs, steps, result, reason, halted, verdict>>

ClaimShift == 65536             \* LD_CLAIM packs the field above 16 bits

Running == [kind |-> "Running", reason |-> None]

PASS == 0
FAIL_SOFT == 1
FAIL_HARD == 2
NEED_BRANCH == 3

-----------------------------------------------------------------------------
(* Opcodes and instructions.                                               *)

LoadOps == {"LD_ATOM_META", "LD_CLAIM", "LD_QC", "LD_CTX", "LD_IMM"}
ComparisonOps == {"EQ", "LT", "LE", "GT", "GE", "IN_RANGE", "HAS_BIT", "IS_TAG"}
CheckOps == {"CHK_TIME", "CHK_TRUST", "CHK_DOMAIN", "CHK_SOURCE", "CTX_PROBE",
             "RAISE_CONFLICT"}
ControlOps == {"JZ", "JMP", "RET", "JNZ", "CALL"}
Opcode == LoadOps \union ComparisonOps \union CheckOps \union ControlOps
          \union {"AND", "NOT"}

Instr(op, a, b, imm) == [op |-> op, a |-> a, b |-> b, imm |-> imm]
Instruction == [op: Opcode, a: Nat, b: Nat, imm: Nat]

\* Fields of bodies and queries are numbers; an opcode byte that names no
\* operation is None.
ASSUME BodyAssumption ==
    \A b \in Bodies:
        /\ b.from \in Nat /\ b.to \in Nat
        /\ b.meta # None => b.meta.trust \in Nat
        /\ b.inv # None =>
              b.inv.code \in Seq([op: Opcode \union {None}, a: Nat, b: Nat, imm: Nat])
ASSUME QueryAssumption ==
    \A q \in Queries:
        /\ q.time # None => q.time[1] \in Nat /\ q.time[2] \in Nat
        /\ q.trust # None => q.trust \in Nat
reg_a(i) == i.a % 16
reg_b(i) == i.b % 16
imm_low(i) == i.imm % HalfWord
imm_high(i) == i.imm \div HalfWord

\* Register 0 reads as zero and swallows writes.
get_reg(r) == IF r = 0 THEN 0 ELSE regs[r]
set_reg(r, v) == IF r = 0 THEN regs ELSE [regs EXCEPT ![r] = v]

-----------------------------------------------------------------------------
(* Constants: the pool entry of the section and the value the machine sees. *)

ConstFixed == {"SYM", "U64", "I64", "F64", "REFID", "TAG"}

\* An entry whose data is too short for its kind reads as zero.
convert_const_pool(entries) ==
    [i \in DOMAIN entries |->
        IF entries[i].kind \in ConstFixed /\ entries[i].short
        THEN [kind |-> entries[i].kind, val |-> 0]
        ELSE [kind |-> entries[i].kind, val |-> entries[i].val]]

as_u64(c) ==
    IF \/ c.kind \in {"U64", "SYM", "REFID", "TAG"}
       \/ c.kind = "I64" /\ c.val >= 0
    THEN c.val ELSE None

get_const(i) == IF i < Len(pool) THEN pool[i + 1] ELSE None

-----------------------------------------------------------------------------
(* Bytecode validation before a run.                                       *)

\* An instruction that is reachable when the pass meets it marks its JZ or JMP
\* target and, unless it is RET or JMP, its successor. A target outside the
\* code stops the pass with an error. JNZ and CALL targets are neither checked
\* nor marked, and a target behind the pass is not visited again.
Mark(p, acc, i) ==
    LET c == p[i + 1]
        jump == c.op \in {"JZ", "JMP"}
    IN  IF acc.bad \/ i \notin acc.reachable THEN acc
        ELSE IF jump /\ c.b >= Len(p) THEN [acc EXCEPT !.bad = TRUE]
        ELSE [acc EXCEPT !.reachable = @ \union (IF jump THEN {c.b} ELSE {})
                \union (IF c.op \notin {"RET", "JMP"} /\ i + 1 < Len(p) THEN {i + 1} ELSE {})]

\* One forward pass over the addresses.
ForwardPass(p) ==
    FoldLeft(LAMBDA acc, i: Mark(p, acc, i), [reachable |-> {0}, bad |-> FALSE],
             [k \in 1..Len(p) |-> k - 1])

\* Mutant: code that is reachable behind the last RET is not refused.
ValidateWithoutFallThrough(p) ==
    /\ p # <<>>
    /\ \A k \in 1..Len(p): p[k].op \in Opcode
    /\ \E k \in 1..Len(p): p[k].op = "RET"
    /\ ~ForwardPass(p).bad
    /\ Len(p) * 3 <= MaxSteps

validate(p) ==
    /\ p # <<>>
    /\ \A k \in 1..Len(p): p[k].op \in Opcode
    /\ \E k \in 1..Len(p): p[k].op = "RET"
    /\ LET pass == ForwardPass(p)
           lastRet == Max({k - 1 : k \in {j \in 1..Len(p): p[j].op = "RET"}})
       IN  /\ ~pass.bad
           /\ \A i \in pass.reachable: i <= lastRet
    /\ Len(p) * 3 <= MaxSteps

-----------------------------------------------------------------------------
(* The views of the atom that eval_invariants decodes from its body.        *)

\* META shorter than 8 bytes: default trust and every domain; shorter than 16:
\* every domain.
parse_meta_bytes(meta) ==
    IF meta = None THEN [trust |-> 5, domain |-> MaxWord]
    ELSE [trust |-> IF meta.len >= 8 THEN Min({meta.trust, 65535}) ELSE 5,
          domain |-> IF meta.len >= 16 THEN meta.domain ELSE MaxWord]

\* Claim records are read until one has no valid tag; only when the very first
\* one fails are the bytes read as the flat format.
parse_claims_bytes(claims) ==
    LET bad == {k \in DOMAIN claims.records: ~claims.records[k].tagged}
    IN  IF bad = {} THEN [k \in DOMAIN claims.records |-> claims.records[k].claim]
        ELSE IF Min(bad) = 1 THEN claims.flat
        ELSE [k \in 1..(Min(bad) - 1) |-> claims.records[k].claim]

AtomView ==
    LET meta == parse_meta_bytes(body.meta)
    IN  [from |-> body.from,
         to |-> IF body.to = 0 THEN MaxWord ELSE body.to,
         type |-> body.type, trust |-> meta.trust, domain |-> meta.domain,
         source |-> 0, claims |-> parse_claims_bytes(body.claims)]

claim_view ==
    IF qc.claim # None /\ qc.claim < Len(AtomView.claims)
    THEN AtomView.claims[qc.claim + 1] ELSE None

domain_mask_to_tags(mask) == Bits(mask)

\* eval_invariants_for_atom and the query view it builds: absent constraints
\* mean all times, no trust floor and no required domain.
QcView ==
    [from |-> IF qc.time = None THEN 0 ELSE qc.time[1],
     to |-> IF qc.time = None THEN MaxWord ELSE qc.time[2],
     trust_min |-> IF qc.trust = None THEN 0 ELSE qc.trust,
     domain |-> IF qc.domain = None THEN 0
                ELSE WordOf(domain_mask_to_tags(qc.domain)),
     types |-> MaxWord, max_results |-> 100 % Words]

-----------------------------------------------------------------------------
(* One instruction.  An outcome says what the registers become and whether  *)
(* to continue, halt, jump, or panic; several outcomes where the build      *)
(* decides.                                                                 *)

Next1(rs) == [regs |-> rs, flow |-> "continue", to |-> 0, result |-> result, reason |-> reason]
Jump(t, rs) == [Next1(rs) EXCEPT !.flow = "jump", !.to = t]
Halt(res, why) == [Next1(regs) EXCEPT !.flow = "halt", !.result = res, !.reason = why]
Panic == [Next1(regs) EXCEPT !.flow = "panic"]
Bool(b) == IF b THEN 1 ELSE 0
Set(i, v) == {Next1(set_reg(reg_a(i), v))}

\* field - 10 underflows for the fields 6 to 9: a build with overflow checks
\* panics, one without reads past every table.
FieldLoad(i, table, known) ==
    IF i.b \in DOMAIN table THEN Set(i, table[i.b])
    ELSE IF i.b < 10 /\ known THEN Set(i, 0) \union {Panic}
    ELSE Set(i, 0)

LdAtomMeta(i) ==
    FieldLoad(i, [f \in 0..5 |-> CASE f = 0 -> AtomView.from [] f = 1 -> AtomView.to
                                   [] f = 2 -> AtomView.type [] f = 3 -> AtomView.trust
                                   [] f = 4 -> AtomView.domain [] f = 5 -> AtomView.source], TRUE)

LdClaim(i) ==
    LET idx == i.b % ClaimShift
        field == i.b \div ClaimShift
        c == IF idx = 0 THEN claim_view
             ELSE IF idx <= Len(AtomView.claims) THEN AtomView.claims[idx] ELSE None
    IN  Set(i, IF c = None THEN 0
               ELSE CASE field = 0 -> c.subj [] field = 1 -> c.pred [] field = 2 -> c.tag
                      [] field = 3 -> c.val [] field = 4 -> c.qual [] OTHER -> 0)

LdQc(i) ==
    FieldLoad(i, [f \in 0..5 |-> CASE f = 0 -> QcView.from [] f = 1 -> QcView.to
                                   [] f = 2 -> QcView.trust_min [] f = 3 -> QcView.domain
                                   [] f = 4 -> QcView.types [] f = 5 -> QcView.max_results], FALSE)

\* The context view is built with context id 0 and an empty policy.
LdCtx(i) ==
    FieldLoad(i, [f \in 0..2 |-> CASE f = 0 -> 0 [] f = 1 -> Cardinality(ctx)
                                   [] f = 2 -> total_conflicts(ctx)], TRUE)

Compare(i) ==
    LET l == get_reg(reg_a(i))
        r == get_reg(reg_b(i))
    IN  Set(i, Bool(CASE i.op = "EQ" -> l = r [] i.op = "LT" -> l < r [] i.op = "LE" -> l <= r
                      [] i.op = "GT" -> l > r [] i.op = "GE" -> l >= r))

InRange(i) == LET v == get_reg(reg_a(i)) IN Set(i, Bool(v >= imm_low(i) /\ v <= imm_high(i)))

\* A shift by WordBits or more panics under overflow checks and is taken
\* modulo the width without them.
HasBit(i) ==
    LET bit(n) == Bool((get_reg(reg_a(i)) \div 2 ^ n) % 2 = 1)
    IN  Set(i, bit(i.imm % WordBits)) \union (IF i.imm >= WordBits THEN {Panic} ELSE {})

IsTag(i) == Set(i, Bool(get_reg(reg_a(i)) = i.imm % 256))

\* Mutant: ranges that only touch count as overlapping.
ChkTimeTouching(i) ==
    IF AtomView.from <= QcView.to /\ QcView.from <= AtomView.to
    THEN {Next1(regs)} ELSE {Halt(FAIL_HARD, "TIME_INVALID")}

ChkTime(i) ==
    IF AtomView.from < QcView.to /\ QcView.from < AtomView.to
    THEN {Next1(regs)} ELSE {Halt(FAIL_HARD, "TIME_INVALID")}

ChkTrust(i) ==
    IF AtomView.trust < QcView.trust_min
    THEN {Halt(FAIL_HARD, "TRUST_TOO_LOW")} ELSE {Next1(regs)}

ChkDomain(i) ==
    IF QcView.domain # 0 /\ And(AtomView.domain, QcView.domain) = 0
    THEN {Halt(FAIL_HARD, "DOMAIN_MISMATCH")} ELSE {Next1(regs)}

\* The entry point gives no allowlist: the pool constant, if it is a number,
\* is the one source allowed.
ChkSource(i) ==
    LET c == get_const(i.b)
        allowed == c = None \/ (c # None /\ as_u64(c) = None)
                   \/ (c # None /\ as_u64(c) # None /\ AtomView.source = as_u64(c) % Words)
    IN  IF allowed THEN {Next1(regs)} ELSE {Halt(FAIL_HARD, "SOURCE_DENIED")}

CtxProbe(i) ==
    LET pattern == get_reg(reg_a(i))
    IN  IF ~has_conflict(ctx, pattern) THEN {Next1(regs)}
        ELSE IF conflict_severity(ctx, pattern) = "Hard"
        THEN {Halt(FAIL_HARD, "CONFLICT_FOUND")}
        ELSE {Halt(NEED_BRANCH, "CONFLICT_FOUND")}

RaiseConflict(i) == {Halt(IF i.imm = 0 THEN FAIL_HARD ELSE NEED_BRANCH, "CONFLICT_FOUND")}

Jz(i) == {IF get_reg(reg_a(i)) = 0 THEN Jump(i.b, regs) ELSE Next1(regs)}
Jnz(i) == {IF get_reg(reg_a(i)) # 0 THEN Jump(i.b, regs) ELSE Next1(regs)}
Jmp(i) == {Jump(i.b, regs)}

\* CALL saves the address behind it; there is no return through a register.
Call(i) == {Jump(i.b, set_reg(reg_a(i), pc + 1))}

\* The code is the operand itself, not the register of that number.
Ret(i) == {Halt(IF i.a % 256 \in 0..3 THEN i.a % 256 ELSE result, reason)}

AndOp(i) == Set(i, And(get_reg(reg_a(i)), get_reg(reg_b(i))))
NotOp(i) == Set(i, MaxWord - get_reg(reg_a(i)))

execute_instruction(i) ==
    CASE i.op = "LD_ATOM_META" -> LdAtomMeta(i)
      [] i.op = "LD_CLAIM" -> LdClaim(i)
      [] i.op = "LD_QC" -> LdQc(i)
      [] i.op = "LD_CTX" -> LdCtx(i)
      [] i.op = "LD_IMM" -> Set(i, i.imm)
      [] i.op \in {"EQ", "LT", "LE", "GT", "GE"} -> Compare(i)
      [] i.op = "IN_RANGE" -> InRange(i)
      [] i.op = "HAS_BIT" -> HasBit(i)
      [] i.op = "IS_TAG" -> IsTag(i)
      [] i.op = "CHK_TIME" -> ChkTime(i)
      [] i.op = "CHK_TRUST" -> ChkTrust(i)
      [] i.op = "CHK_DOMAIN" -> ChkDomain(i)
      [] i.op = "CHK_SOURCE" -> ChkSource(i)
      [] i.op = "CTX_PROBE" -> CtxProbe(i)
      [] i.op = "RAISE_CONFLICT" -> RaiseConflict(i)
      [] i.op = "JZ" -> Jz(i)
      [] i.op = "JMP" -> Jmp(i)
      [] i.op = "RET" -> Ret(i)
      [] i.op = "AND" -> AndOp(i)
      [] i.op = "NOT" -> NotOp(i)
      [] i.op = "JNZ" -> Jnz(i)
      [] i.op = "CALL" -> Call(i)

-----------------------------------------------------------------------------
(* The entry point.                                                         *)

\* vm_result_to_abi: the branch verdict carries no conflict id here.
vm_result_to_abi(res, why) ==
    CASE res = PASS -> [kind |-> "Pass", reason |-> None]
      [] res = FAIL_SOFT -> [kind |-> "FailSoft", reason |-> why]
      [] res = FAIL_HARD -> [kind |-> "FailHard", reason |-> why]
      [] res = NEED_BRANCH -> [kind |-> "NeedBranch", reason |-> None]

Pass == vm_result_to_abi(PASS, None)
Corrupt == vm_result_to_abi(FAIL_HARD, "CORRUPT_SECTION")

\* The section is found only behind a good header and a section table inside
\* the body.
find_invariants_section(b) == IF b.framed THEN b.inv ELSE None

\* The section's bytes: a whole header with the magic number, pool entries of
\* known kinds inside the section, and a code offset inside it.
HeaderReads(s) == s.fault \notin {"short", "magic"}
EntriesRead(s) == s.fault \notin {"entry_kind", "entry_bounds"}
SectionParses(s) == HeaderReads(s) /\ EntriesRead(s) /\ s.fault # "code_offset"

\* Code is a whole number of 16-byte instructions with known opcodes.
parse_raw_instructions(s) ==
    IF s.aligned /\ \A k \in DOMAIN s.code: s.code[k].op \in Opcode THEN s.code ELSE None

\* What eval_invariants returns before it starts the machine, or Running.
Early(b) ==
    LET s == find_invariants_section(b)
    IN  CASE s = None -> Pass
          [] s # None /\ ~SectionParses(s) -> Corrupt
          [] s # None /\ SectionParses(s) /\ s.code = <<>> /\ s.aligned -> Pass
          [] s # None /\ SectionParses(s) /\ (s.code # <<>> \/ ~s.aligned)
             /\ parse_raw_instructions(s) = None -> Corrupt
          [] OTHER -> IF validate(s.code) THEN Running ELSE Corrupt

\* The whole prefix of eval_invariants for chosen arguments, from a machine
\* with cleared registers.
BeginEval(b, q, x) ==
    /\ body = b /\ qc = q /\ ctx = x
    /\ verdict = Early(b)
    /\ code = IF verdict = Running THEN b.inv.code ELSE <<>>
    /\ pool = IF verdict = Running THEN convert_const_pool(b.inv.pool) ELSE <<>>
    /\ pc = 0 /\ regs = [r \in 1..15 |-> 0] /\ steps = 0
    /\ result = PASS /\ reason = "TIME_INVALID" /\ halted = FALSE

VmInit == \E b \in Bodies, q \in Queries, x \in Indexes: BeginEval(b, q, x)

\* The budget is spent before the instruction is fetched.
OutOfBudget ==
    /\ verdict = Running /\ ~halted /\ pc < Len(code)
    /\ steps + 1 > MaxSteps
    /\ steps' = steps + 1
    /\ result' = FAIL_HARD /\ reason' = "BUDGET_EXCEEDED" /\ halted' = TRUE
    /\ UNCHANGED <<body, qc, ctx, code, pool, pc, regs, verdict>>

Execute ==
    /\ verdict = Running /\ ~halted /\ pc < Len(code)
    /\ steps + 1 <= MaxSteps
    /\ steps' = steps + 1
    /\ \E o \in execute_instruction(code[pc + 1]):
        /\ regs' = o.regs /\ result' = o.result /\ reason' = o.reason
        /\ halted' = (o.flow = "halt")
        /\ pc' = IF o.flow = "jump" /\ o.to < Len(code) THEN o.to ELSE pc + 1
        /\ verdict' = CASE o.flow = "panic" -> [kind |-> "Panic", reason |-> None]
                        [] o.flow = "jump" /\ o.to >= Len(code) -> Corrupt
                        [] OTHER -> Running
    /\ UNCHANGED <<body, qc, ctx, code, pool>>

\* The loop ends halted or past the last instruction; both report the result.
Finish ==
    /\ verdict = Running /\ (halted \/ pc >= Len(code))
    /\ verdict' = vm_result_to_abi(result, reason)
    /\ UNCHANGED <<body, qc, ctx, code, pool, pc, regs, steps, result, reason, halted>>

VmNext == OutOfBudget \/ Execute \/ Finish

-----------------------------------------------------------------------------
(* The programs that the module builds.                                     *)

basic_invariant_program ==
    <<Instr("CHK_TIME", 0, 0, 0), Instr("CHK_TRUST", 0, 0, 0),
      Instr("CHK_DOMAIN", 0, 0, 0), Instr("RET", PASS, 0, 0)>>

conflict_probe_program ==
    <<Instr("LD_CTX", 1, 0, 0), Instr("CTX_PROBE", 1, 0, 0), Instr("RET", PASS, 0, 0)>>

\* Its pool is one TAG constant, which CHK_SOURCE takes for a source number.
full_validation_program(tag) ==
    <<Instr("CHK_TIME", 0, 0, 0), Instr("CHK_TRUST", 0, 0, 0),
      Instr("CHK_DOMAIN", 0, 0, 0), Instr("CHK_SOURCE", 0, 0, 0),
      Instr("LD_CLAIM", 1, 1 + 2 * ClaimShift, 0), Instr("IS_TAG", 1, 0, tag),
      Instr("JZ", 1, 8, 0), Instr("RET", PASS, 0, 0), Instr("RET", FAIL_HARD, 0, 0)>>

time_range_program ==
    <<Instr("LD_ATOM_META", 1, 0, 0), Instr("LD_QC", 2, 1, 0), Instr("LT", 1, 2, 0),
      Instr("JZ", 1, 9, 0),
      Instr("LD_ATOM_META", 1, 1, 0), Instr("LD_QC", 2, 0, 0), Instr("GT", 1, 2, 0),
      Instr("JZ", 1, 9, 0), Instr("RET", PASS, 0, 0), Instr("RET", FAIL_HARD, 0, 0)>>

trust_threshold_program ==
    <<Instr("LD_ATOM_META", 1, 3, 0), Instr("LD_QC", 2, 2, 0), Instr("GE", 1, 2, 0),
      Instr("JZ", 1, 5, 0), Instr("RET", PASS, 0, 0), Instr("RET", FAIL_HARD, 0, 0)>>

\* build and build_with_pool: labels resolved to addresses, none left open.
build(instrs, labels, fixups) ==
    IF \A f \in fixups: f.label \in DOMAIN labels
    THEN [k \in DOMAIN instrs |->
            IF \E f \in fixups: f.at = k - 1
            THEN [instrs[k] EXCEPT !.b = labels[(CHOOSE f \in fixups: f.at = k - 1).label]]
            ELSE instrs[k]]
    ELSE None

-----------------------------------------------------------------------------
(* Properties.                                                              *)

Overlaps == AtomView.from < QcView.to /\ QcView.from < AtomView.to
Trusted == AtomView.trust >= QcView.trust_min
InDomain == QcView.domain = 0 \/ \E b \in 0..(WordBits - 1):
                /\ (QcView.domain \div 2 ^ b) % 2 = 1
                /\ (AtomView.domain \div 2 ^ b) % 2 = 1

\* LD_CLAIM reads zero where there is no claim, so a program that asks for
\* tag zero lets a body without claims through.
FirstTag ==
    LET c == IF 1 <= Len(AtomView.claims) THEN AtomView.claims[1] ELSE None
    IN  IF c = None THEN 0 ELSE c.tag

\* A straight-line program that checks time, trust and domain, and each of the
\* compiled range and threshold programs, lets exactly the atoms through that
\* meet the query's constraints: the jumps, registers and early halts of the
\* interpreter and the defaults of the entry point lose no refusal and add
\* none, however the run ends (BytecodeValidator, execute, eval_invariants).
VerdictMatchesConstraints ==
    verdict # Running =>
        /\ code = basic_invariant_program =>
              ((verdict = Pass) <=> (Overlaps /\ Trusted /\ InDomain))
        /\ code = time_range_program => ((verdict = Pass) <=> Overlaps)
        /\ code = trust_threshold_program => ((verdict = Pass) <=> Trusted)
        /\ (\E t \in 0..255: code = full_validation_program(t)) =>
              (verdict = Pass => Overlaps /\ Trusted /\ InDomain /\ FirstTag = code[6].imm)

\* Where a jump of the program may lead.
ForwardOnly == \A k \in DOMAIN code:
    /\ code[k].op \notin {"JNZ", "CALL"}
    /\ code[k].op \in {"JZ", "JMP"} => code[k].b >= k

\* A program that passed validation and jumps only forward with JZ and JMP
\* ends by a RET, by a check or conflict, or by its budget: it never runs past
\* its last instruction (which would report PASS) and never leaves its bounds
\* (validate's reachability pass against execute's loop).
ForwardProgramsReturn ==
    (ForwardOnly /\ code # <<>>) => (pc < Len(code) \/ halted) /\ verdict # Corrupt
=============================================================================
