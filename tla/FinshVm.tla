-------------------------------- MODULE FinshVm --------------------------------
(***************************************************************************)
(* What finsh does with a line: the compiler (components/finsh/            *)
(* finsh_compiler.c) turns the tree of the parser into code for a stack    *)
(* machine (finsh_ops.c, finsh_vm.c), which runs it; the bottom of the     *)
(* stack is shown, as a long.  Only that slot is cleaned between lines,    *)
(* and an operation on a char leaves the upper bytes of a slot as they are.*)
(*                                                                         *)
(* A char has CharSize values and a long LongSize; short goes the way of   *)
(* char.  Addresses are longs; a variable has the address that names it.   *)
(* A node is [type, data, child]: its data is a value or an address, its   *)
(* child the sequence of its operands.  Of the binary operators two stand  *)
(* for all; a system call subtracts.  Lines too long for the 128 bytes of  *)
(* the text segment, which the compiler does not notice, are left out.     *)
(***************************************************************************)
EXTENDS Integers, SequencesExt

CONSTANTS CharSize, LongSize, MaxLines

ASSUME FinshAssumption ==
    CharSize \in Nat \ {0} /\ LongSize % CharSize = 0 /\ LongSize > 7 /\ MaxLines \in Nat

VARIABLES
    finsh_vm_stack, finsh_sp,
    memory,             \* what is at each address
    typed,              \* the last line is one C and finsh read alike
    expected,           \* the value that line has in C, and whether all bytes show it
    lines               \* how many lines there were

finshVars == <<finsh_vm_stack, finsh_sp, memory, typed, expected, lines>>

StackSlot == 0 .. 5
Long      == 0 .. LongSize - 1
CharVar == 5            \* char c;
LongVar == 6            \* long i;
PtrVar  == 7            \* long *p;

NoValue == [width |-> "void", value |-> 0, whole |-> FALSE, memory |-> [a \in Long |-> 0]]

FinshInit ==
    /\ finsh_vm_stack = [s \in StackSlot |-> 0] /\ finsh_sp = 0
    /\ memory = [a \in Long |-> 0]
    /\ typed = FALSE /\ expected = NoValue /\ lines = 0

\* The low part of a slot, and a slot whose low part is replaced.
Low(width, slot)       == IF width = "byte" THEN slot % CharSize ELSE slot
SetLow(width, slot, v) == IF width = "byte" THEN slot - (slot % CharSize) + (v % CharSize)
                                            ELSE v % LongSize

Binary == {"ADD", "SUB"}
Apply(op, x, y) == IF op = "ADD" THEN x + y ELSE x - y
SystemCall(x, y) == x - y
-----------------------------------------------------------------------------
\* The trees that proc_expr and its functions build, with make_sys_node.
Node(type, data, child) == [type |-> type, data |-> data, child |-> child]
Id(a)       == Node("ID", a, <<>>)
LongVal(v)  == Node("LONG", v, <<>>)
Unary(type, n) == Node(type, 0, <<n>>)
make_sys_node(type, n, m) == Node(type, 0, <<n, m>>)
Negated(n)  == make_sys_node("SUB", LongVal(0), n)
FuncCall(n, m) == Node("FUNC", 0, <<Node("SYSCALL", 0, <<>>), n, m>>)

Pointed     == Unary("GETVALUE", Id(PtrVar))
AddressOfI  == Unary("GETADDR", Id(LongVar))
Place       == {Id(LongVar), Pointed, Unary("GETVALUE", AddressOfI)}
Step_       == {"PREINC", "PREDEC", "INC", "DEC"}

CharExpr == {Id(CharVar), Node("CHAR", 1, <<>>)}
                \cup {Unary(type, Id(CharVar)) : type \in Step_}
LongExpr == {Id(LongVar), LongVal(LongSize - 2), Pointed, Negated(Id(LongVar)),
             Unary("BITWISE", Id(LongVar)), Unary("GETVALUE", AddressOfI),
             Unary("GETADDR", Pointed), Unary("PREINC", Pointed)}
                \cup {Unary(type, Id(LongVar)) : type \in Step_}
Operand  == {Id(CharVar), Id(LongVar), Unary("INC", Id(LongVar)), Pointed,
             FuncCall(LongVal(1), Id(LongVar))}
Pair     == {make_sys_node(op, n, m) : op \in Binary, n \in Operand, m \in Operand}
Assigned == {make_sys_node("ASSIGN", n, m) : n \in Place, m \in Operand}

Expr ==
    CharExpr \cup LongExpr \cup Pair \cup Assigned
    \cup {make_sys_node("ASSIGN", Id(PtrVar), AddressOfI),
          make_sys_node("ASSIGN", Id(CharVar), Unary("PREINC", Id(LongVar)))}
    \cup {make_sys_node("ASSIGN", Id(LongVar), n) : n \in Pair \cup Assigned}
    \cup {make_sys_node("SUB", Unary("DEC", Id(LongVar)), n) : n \in Assigned}
    \cup {FuncCall(n, Pointed) : n \in Assigned}

\* The statements of a line: finsh_parser_run links them as siblings.
Line == {<<n>> : n \in Expr}
        \cup {<<n, Id(a)>> : n \in Assigned, a \in {CharVar, LongVar}}
-----------------------------------------------------------------------------
VarWidth(a) == IF a = CharVar THEN "byte" ELSE "dword"

RECURSIVE Width(_), Compile(_, _), CompileAll(_, _), Eval(_, _), Agree(_)

\* finsh_type_check: a node is as wide as its first child.
Width(n) ==
    CASE n.child # <<>>     -> Width(n.child[1])
      [] n.type = "ID"      -> VarWidth(n.data)
      [] n.type = "CHAR"    -> "byte"
      [] n.type = "LONG"    -> "dword"
      [] n.type = "SYSCALL" -> "void"

\* And whether the first child stands for its address; the others never do.
ChildIsAddr(n, isAddr) ==
    \/ n.type \in {"ASSIGN", "PREINC", "PREDEC", "GETADDR"}
    \/ isAddr /\ n.type # "GETVALUE"

Ins(op, width, arg) == [op |-> op, width |-> width, arg |-> arg]

LoadId(n, isAddr) == IF isAddr THEN <<Ins("LD", "dword", n.data)>>
                               ELSE <<Ins("LD_VALUE", VarWidth(n.data), n.data)>>

\* Pre- and post-increase: i has been loaded as an address or as a value.
AddOne(op, w, a) == <<Ins("LD_VALUE", w, a), Ins("LD", w, 1), Ins(op, w, 0), Ins("ST", w, 0)>>

\* So the value of a post-increase is the one before it.
StepCode(n) ==
    LET a  == n.child[1].data
        w  == VarWidth(a)
        op == IF n.type \in {"PREINC", "INC"} THEN "ADD" ELSE "SUB"
    IN  IF n.type \in {"PREINC", "PREDEC"}
        THEN AddOne(op, w, a) \o <<Ins("LD_VALUE_STACK", "dword", 0)>>
        ELSE <<Ins("LD", "dword", a)>> \o AddOne(op, w, a) \o <<Ins("POP", w, 0)>>

\* What finsh_compile generates for a node after its children.  There is no code
\* for an operation on what a system call returns, whose width is void.
OwnCode(n, isAddr) ==
    LET w == Width(n) IN
    CASE n.type \in {"CHAR", "LONG"}  -> <<Ins("LD", w, n.data)>>
      [] n.type = "SYSCALL"           -> <<Ins("LD", "dword", n.data)>>
      [] n.type = "ID"                -> LoadId(n, isAddr)
      [] n.type \in Binary \cup {"BITWISE"} -> IF w = "void" THEN <<>> ELSE <<Ins(n.type, w, 0)>>
      [] n.type = "FUNC"              -> <<Ins("CALL", w, Len(n.child) - 1)>>
      [] n.type = "ASSIGN"            -> <<Ins("ST", w, 0), Ins("LD_VALUE_STACK", w, 0)>>
      [] n.type \in Step_             -> IF n.child[1].type = "ID" THEN StepCode(n) ELSE <<>>
      [] n.type = "GETVALUE"          -> IF isAddr THEN <<>> ELSE <<Ins("LD_VALUE_STACK", w, 0)>>
      [] n.type = "GETADDR"           -> <<>>

Compile(n, isAddr) ==
    CompileAll(n.child, ChildIsAddr(n, isAddr)) \o OwnCode(n, isAddr)

CompileAll(siblings, isAddr) ==
    IF siblings = <<>> THEN <<>>
    ELSE Compile(Head(siblings), isAddr) \o CompileAll(Tail(siblings), FALSE)

\* finsh_compiler_run: the value of a statement goes before the next one.
finsh_compiler_run[line \in Line] ==
    IF Len(line) = 1 THEN Compile(line[1], FALSE)
    ELSE Compile(line[1], FALSE) \o <<Ins("POP", "dword", 0)>> \o Compile(line[2], FALSE)
-----------------------------------------------------------------------------
\* The functions of op_table, on m = [stack, sp, memory].
Under(m, k) == m.stack[m.sp - k]
Push(m, w, v) ==
    [m EXCEPT !.stack[m.sp] = SetLow(w, @, v), !.sp = @ + 1]
Replace(m, k, w, v) ==
    [m EXCEPT !.stack[m.sp - k] = SetLow(w, @, v), !.sp = @ - k + 1]

Execute(ins, m) ==
    LET w == ins.width IN
    CASE ins.op = "LD"             -> Push(m, w, ins.arg)
      [] ins.op = "LD_VALUE"       -> Push(m, w, Low(w, m.memory[ins.arg]))
      [] ins.op = "LD_VALUE_STACK" -> Replace(m, 1, w, m.memory[Under(m, 1)])
      [] ins.op \in Binary         -> Replace(m, 2, w, Apply(ins.op, Low(w, Under(m, 2)),
                                                                     Low(w, Under(m, 1))))
      [] ins.op = "BITWISE"        -> Replace(m, 1, w, -1 - Low(w, Under(m, 1)))
      [] ins.op = "ST"             -> [m EXCEPT !.memory[Under(m, 2)] = SetLow(w, @, Under(m, 1)),
                                                !.sp = @ - 1]
      [] ins.op = "POP"            -> [m EXCEPT !.sp = @ - 1]
      [] ins.op = "CALL"           -> Replace(m, ins.arg + 1, "dword",
                                              SystemCall(Under(m, 2), Under(m, 1)))

RECURSIVE Run(_, _)
Run(code, m) == IF code = <<>> THEN m ELSE Run(Tail(code), Execute(Head(code), m))

\* Mutant: not even the bottom of the stack is cleaned.
finsh_vm_runDirty(code) ==
    Run(code, [stack |-> finsh_vm_stack, sp |-> 0, memory |-> memory])

\* finsh_vm_run: from the bottom of the stack, of which the compiler has cleaned
\* one slot, to the end of the code; the rest of the text segment is no_op.
finsh_vm_run(code) ==
    Run(code, [stack |-> [finsh_vm_stack EXCEPT ![0] = 0], sp |-> 0, memory |-> memory])
-----------------------------------------------------------------------------
\* What a tree is worth in C, its operands taken from left to right.
Value(v, mem) == [value |-> v, memory |-> mem]
Stored(w, a, v, mem) == [mem EXCEPT ![a] = SetLow(w, @, v)]
InWidth(w, v) == IF w = "byte" THEN v % CharSize ELSE v % LongSize

\* The address of what can be assigned to.
AddressOf(n, mem) == IF n.type = "ID" THEN Value(n.data, mem) ELSE Eval(n.child[1], mem)

EvalStep(n, mem) ==
    LET a   == n.child[1].data
        w   == VarWidth(a)
        new == InWidth(w, mem[a] + IF n.type \in {"PREINC", "INC"} THEN 1 ELSE -1)
    IN  Value(IF n.type \in {"PREINC", "PREDEC"} THEN new ELSE Low(w, mem[a]),
              Stored(w, a, new, mem))

Eval(n, mem) ==
    LET w     == Width(n)
        first == Eval(n.child[1], mem)
        next  == Eval(n.child[2], first.memory)
        to    == AddressOf(n.child[1], mem)
        right == Eval(n.child[2], to.memory)
        last  == Eval(n.child[3], next.memory)
    IN
    CASE n.type \in {"CHAR", "LONG", "SYSCALL"} -> Value(n.data, mem)
      [] n.type = "ID"       -> Value(Low(w, mem[n.data]), mem)
      [] n.type \in Binary   -> Value(InWidth(w, Apply(n.type, first.value, next.value)),
                                      next.memory)
      [] n.type = "BITWISE"  -> Value(InWidth(w, -1 - first.value), first.memory)
      [] n.type = "FUNC"     -> Value(SystemCall(next.value, last.value) % LongSize, last.memory)
      [] n.type = "ASSIGN"   -> Value(InWidth(w, right.value),
                                      Stored(w, to.value, right.value, right.memory))
      [] n.type \in Step_    -> EvalStep(n, mem)
      [] n.type = "GETVALUE" -> Value(first.memory[first.value], first.memory)
      [] n.type = "GETADDR"  -> AddressOf(n.child[1], mem)

\* A system call returns a long, and so is an address.
ResultWidth(n) == IF n.type \in {"FUNC", "GETADDR"} THEN "dword" ELSE Width(n)

\* Whether the code gives the bottom slot all its bytes: an operation on a long does,
\* and one on a char if the slot is still clean.  It is not when an assignment has had
\* its address there, or a statement before its value (finsh_ops.c:318, 331).  And ++c
\* loads a long from where c is, of which c is all until i = f(x, y) + c has stored at
\* the address that f returned.
ShowsWhole(line) ==
    \/ ResultWidth(line[Len(line)]) = "dword"
    \/ /\ Len(line) = 1 /\ line[1].type # "ASSIGN"
       /\ line[1].type \in {"PREINC", "PREDEC"} => memory[CharVar] < CharSize

EvalLine(line) ==
    LET first == Eval(line[1], memory)
        last  == IF Len(line) = 1 THEN first ELSE Eval(line[2], first.memory)
    IN  [width |-> Width(line[Len(line)]), value |-> last.value,
         whole |-> ShowsWhole(line), memory |-> last.memory]

\* Where the two agree on widths: both operands are of the same width; an assignment
\* does not widen; what a system call is given and returns is a long, and nothing is
\* done with it but as a right operand; and only a variable is increased.
Agree(n) ==
    /\ \A k \in 1 .. Len(n.child) : Agree(n.child[k])
    /\ n.type \in Binary => /\ Width(n) # "void"
                            /\ ResultWidth(n.child[2]) = Width(n)
    /\ n.type = "ASSIGN" => ResultWidth(n.child[2]) \in {Width(n), "dword"}
    /\ n.type \in Step_  => n.child[1].type = "ID"
    /\ n.type = "FUNC"   => \A k \in 2 .. Len(n.child) : ResultWidth(n.child[k]) = "dword"

\* i = c as first statement: c goes to the second slot, which nobody cleans, and the
\* assignment takes all of it.  The two agree if no earlier line has left a long there.
Widened(line) ==
    /\ line[1].type = "ASSIGN" /\ line[1].child[2] = Id(CharVar)
    /\ finsh_vm_stack[1] < CharSize
-----------------------------------------------------------------------------
\* A line may use the pointer when it points to something.
RECURSIVE UsesPointer(_)
UsesPointer(n) ==
    n = Pointed \/ \E k \in 1 .. Len(n.child) : UsesPointer(n.child[k])

finsh_run_line(line) ==
    LET end == finsh_vm_run(finsh_compiler_run[line]) IN
    /\ lines < MaxLines /\ lines' = lines + 1
    /\ (\E k \in 1 .. Len(line) : UsesPointer(line[k])) => memory[PtrVar] # 0
    /\ finsh_vm_stack' = end.stack /\ finsh_sp' = end.sp /\ memory' = end.memory
    /\ typed' = \A k \in 1 .. Len(line) : Agree(line[k]) \/ (k = 1 /\ Widened(line))
    /\ expected' = IF typed' THEN EvalLine(line) ELSE NoValue

\* A bound of the model: the board is started again.
FinshRestart ==
    /\ lines = MaxLines /\ lines' = 0
    /\ finsh_vm_stack' = [s \in StackSlot |-> 0] /\ finsh_sp' = 0
    /\ memory' = [a \in Long |-> 0]
    /\ typed' = FALSE /\ expected' = NoValue

FinshNext == FinshRestart \/ \E line \in Line : finsh_run_line(line)

FinshSpec == FinshInit /\ [][FinshNext]_finshVars
-----------------------------------------------------------------------------
FinshTypeOK ==
    /\ finsh_vm_stack \in [StackSlot -> Long] /\ finsh_sp \in StackSlot
    /\ memory \in [Long -> Long] /\ typed \in BOOLEAN

\* A line leaves the variables as C does and one value on the stack, whatever the lines
\* before it left there; the long that the shell shows (shell.c:131-138) is the value the
\* line has in C, all its bytes, when the line ends in a long, and when its one statement
\* is a char but no assignment (for ++c, as long as nothing is stored beside c).  Of any
\* other char only the low byte is right: the shell shows it with bytes of an address or
\* of the statement before.  This is for lines whose operands are of one width where they
\* meet, chars added to chars as chars, and nothing added to what a system call returns;
\* and for i = c while no line before it has left a long in the second slot, which the
\* compiler does not clean (finsh_compiler.c:894-896).
LineIsRight ==
    typed => /\ finsh_sp = 1
             /\ Low(expected.width, finsh_vm_stack[0]) = expected.value
             /\ expected.whole => finsh_vm_stack[0] = expected.value
             /\ memory = expected.memory
===============================================================================
