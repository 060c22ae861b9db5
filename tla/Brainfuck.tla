------------------------------ MODULE Brainfuck ------------------------------
(***************************************************************************)
(* The interpreter behind the bf command, one instruction per step.  The    *)
(* command hands the run to a timeout and takes it out again before it       *)
(* waits, so that nothing ends a program that does not end by itself.       *)
(***************************************************************************)
EXTENDS Discord, SequencesExt, FiniteSetsExt

CONSTANTS
    CellCount,  \* cells of the tape, 30000
    ByteValues, \* values of a cell, 256
    MaxCode,    \* bound: instructions of a program
    MaxOutput   \* bound: bytes that a program writes

ASSUME TapeAssumption ==
    /\ CellCount \in Nat \ {0} /\ ByteValues \in Nat \ {0, 1} /\ MaxCode \in Nat
    /\ MaxOutput \in Nat

VARIABLES
    code,    \* the program without its comments
    cells,   \* the tape
    ptr,     \* the current cell, counted from 0
    pc,      \* the next instruction, counted from 1
    input,   \* bytes that have not been read
    wrote,   \* bytes that have been written
    fate     \* "running", "done" or "panic"

bfVars == <<code, cells, ptr, pc, input, wrote, fate>>

Instructions == {"+", "-", "<", ">", "[", "]", ".", ","}
OffCode == 0   \* no instruction

\* BrainfuckProgram::new, and the input of the command.
BfInit ==
    /\ code \in BoundedSeq(Instructions, MaxCode)
    /\ input \in {<<>>, <<1>>}
    /\ cells = [i \in 0..CellCount - 1 |-> 0]
    /\ ptr = 0 /\ pc = 1 /\ wrote = 0 /\ fate = "running"

-----------------------------------------------------------------------------
Nesting(instruction) == CASE instruction = "[" -> 1 [] instruction = "]" -> -1 [] OTHER -> 0

\* Mutant: an inner bracket is not counted.
MatchBracketForwardFlat(from) ==
    LET closing == {q \in from + 1..Len(code) : code[q] = "]"}
    IN  IF closing = {} THEN OffCode ELSE Min(closing)

\* The loops that are open behind each instruction that the scan has read.
DepthForward(from) ==
    LET depth[q \in from..Len(code)] ==
            IF q = from THEN 1 ELSE depth[q - 1] + Nesting(code[q])
    IN  depth

\* match_bracket_forward of a zero cell: the scan ends at depth 0, or off the code.
MatchBracketForward(from) ==
    LET depth == DepthForward(from)
        ends == {q \in from + 1..Len(code) : depth[q] = 0}
    IN  IF ends = {} THEN OffCode ELSE Min(ends)

\* The same of a scan that goes back.
DepthBackward(from) ==
    LET depth[q \in 1..from] ==
            IF q = from THEN 1 ELSE depth[q + 1] - Nesting(code[q])
    IN  depth

\* match_bracket_backward of a cell that is not zero.
MatchBracketBackward(from) ==
    LET depth == DepthBackward(from)
        ends == {q \in 1..from - 1 : depth[q] = 0}
    IN  IF ends = {} THEN OffCode ELSE Max(ends)

-----------------------------------------------------------------------------
Executes(instruction) == fate = "running" /\ pc <= Len(code) /\ code[pc] = instruction
OnTape == ptr \in DOMAIN cells
BfPanics == fate' = "panic" /\ UNCHANGED <<code, cells, ptr, pc, input, wrote>>
ContinuesBehind(instruction) == IF instruction = OffCode THEN BfPanics
                      ELSE pc' = instruction + 1 /\ UNCHANGED <<code, cells, ptr, input, wrote, fate>>

\* + and -, which wrap around.
Change ==
    \E by \in {1, ByteValues - 1} :
      /\ Executes(IF by = 1 THEN "+" ELSE "-")
      /\ IF ~OnTape THEN BfPanics
         ELSE /\ cells' = [cells EXCEPT ![ptr] = (@ + by) % ByteValues] /\ pc' = pc + 1
              /\ UNCHANGED <<code, ptr, input, wrote, fate>>

\* < and >: the pointer may leave the tape; it wraps around far beyond it.
Move ==
    \E right \in BOOLEAN :
      /\ Executes(IF right THEN ">" ELSE "<")
      /\ ptr' = IF right THEN ptr + 1 ELSE ptr - 1
      /\ pc' = pc + 1
      /\ UNCHANGED <<code, cells, input, wrote, fate>>

Open ==
    /\ Executes("[")
    /\ IF ~OnTape THEN BfPanics
       ELSE ContinuesBehind(IF cells[ptr] = 0 THEN MatchBracketForward(pc) ELSE pc)

Close ==
    /\ Executes("]")
    /\ IF ~OnTape THEN BfPanics
       ELSE ContinuesBehind(IF cells[ptr] # 0 THEN MatchBracketBackward(pc) ELSE pc)

Write ==
    /\ Executes(".")
    /\ IF ~OnTape THEN BfPanics
       ELSE /\ wrote < MaxOutput /\ wrote' = wrote + 1 /\ pc' = pc + 1
            /\ UNCHANGED <<code, cells, ptr, input, fate>>

\* At the end of the input a zero is read.
ReadByte ==
    /\ Executes(",")
    /\ IF ~OnTape THEN BfPanics
       ELSE /\ cells' = [cells EXCEPT ![ptr] = IF input = <<>> THEN 0 ELSE Head(input)]
            /\ input' = IF input = <<>> THEN <<>> ELSE Tail(input)
            /\ pc' = pc + 1
            /\ UNCHANGED <<code, ptr, wrote, fate>>

\* The output is the reply.
Finish ==
    /\ fate = "running" /\ pc > Len(code) /\ fate' = "done"
    /\ UNCHANGED <<code, cells, ptr, pc, input, wrote>>

BfNext == Change \/ Move \/ Open \/ Close \/ Write \/ ReadByte \/ Finish

BfSpec == BfInit /\ [][BfNext]_bfVars

-----------------------------------------------------------------------------
\* The tape holds bytes and the program counter stays on the code or one behind it.  The
\* pointer may leave the tape, but never by more than the instructions before the counter:
\* every way back goes through a bracket, which panics off the tape.
BfTypeOK ==
    /\ code \in Seq(Instructions)
    /\ DOMAIN cells = 0..CellCount - 1 /\ \A i \in DOMAIN cells : cells[i] \in 0..ByteValues - 1
    /\ pc \in 1..Len(code) + 1
    /\ ptr \in 1 - pc..CellCount + pc - 2
    /\ input \in Seq(0..ByteValues - 1)
    /\ wrote \in 0..MaxOutput
    /\ fate \in {"running", "done", "panic"}

\* Two brackets that belong together: between them every loop that is opened is closed.
NetOpens(i, j) ==
    Cardinality({k \in i..j : code[k] = "["}) - Cardinality({k \in i..j : code[k] = "]"})
Partners(i, j) ==
    /\ i < j /\ code[i] = "[" /\ code[j] = "]" /\ NetOpens(i, j) = 0
    /\ \A k \in i..j - 1 : NetOpens(i, k) > 0

\* The scan for a bracket ends at the partner of the one it starts from: a loop is left
\* behind its own end and repeated from its own beginning, however loops are nested, and
\* a program panics there only when that partner is missing.
JumpsMatch ==
    [][ LET bracket == code[pc]
            jumps == (cells[ptr] = 0) = (bracket = "[")
        IN  (fate = "running" /\ pc <= Len(code) /\ OnTape /\ bracket \in {"[", "]"})
              => IF ~jumps THEN pc' = pc + 1
                 ELSE IF fate' = "panic"
                 THEN \A q \in 1..Len(code) : ~Partners(pc, q) /\ ~Partners(q, pc)
                 ELSE Partners(pc, pc' - 1) \/ Partners(pc' - 1, pc) ]_bfVars
=============================================================================
