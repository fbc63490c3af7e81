-------------------------------- MODULE VLog --------------------------------
(***************************************************************************)
(* vlog: src/main.c.  The kernel's print callback draws every line below   *)
(* the one before it and starts again at row 300 behind row 520.  Any core *)
(* may print at any time: pos and the mark in the last pixel have no lock. *)
(* The compiler may test the value it has stored or load pos once more.    *)
(***************************************************************************)
EXTENDS Integers, FiniteSets

CONSTANTS
    Core,      \* the callers of KernelDebugPrintfCallback
    MaxLines   \* bound on the lines printed

ASSUME VLogAssumption == MaxLines \in Nat

Top == 300
Bottom == 520
RowStep == 20

VARIABLES
    pos,      \* the row of the next line
    mark,     \* the last pixel of row 543 holds 0xCAFEBABE
    at,       \* where a core stands in the callback
    reg,      \* its copy of pos; Top while it has none
    printed   \* lines begun

lvars == <<pos, mark, at, reg, printed>>

LogTypeOK ==
    /\ pos \in Int /\ mark \in BOOLEAN
    /\ at \in [Core -> {"out", "test", "reset", "mark", "draw", "load", "store", "wrap", "clear"}]
    /\ reg \in [Core -> Int] /\ printed \in Nat

LogInit ==
    /\ pos = Top /\ mark = FALSE
    /\ at = [c \in Core |-> "out"] /\ reg = [c \in Core |-> Top] /\ printed = 0

-----------------------------------------------------------------------------
Goes(c, from, to) == at[c] = from /\ at' = [at EXCEPT ![c] = to]

PrintLine(c) ==
    /\ Goes(c, "out", "test") /\ printed < MaxLines /\ printed' = printed + 1
    /\ UNCHANGED <<pos, mark, reg>>

(* Someone else has drawn the whole screen since the last line. *)
TestMark(c) ==
    /\ IF mark THEN Goes(c, "test", "draw") ELSE Goes(c, "test", "reset")
    /\ UNCHANGED <<pos, mark, reg, printed>>

ResetPos(c) ==
    /\ Goes(c, "reset", "mark") /\ pos' = Top
    /\ UNCHANGED <<mark, reg, printed>>

SetMark(c) ==
    /\ Goes(c, "mark", "draw") /\ mark' = TRUE
    /\ UNCHANGED <<pos, reg, printed>>

(* A glyph is 16 rows high; the sixtieth of a line reaches the last column,
   and with it the mark if the line covers row 543. *)
BlitString(c) ==
    /\ Goes(c, "draw", "load")
    /\ \/ UNCHANGED mark
       \/ pos <= 543 /\ 543 < pos + 16 /\ mark' = FALSE
    /\ UNCHANGED <<pos, reg, printed>>

Load(c) ==
    /\ Goes(c, "load", "store") /\ reg' = [reg EXCEPT ![c] = pos]
    /\ UNCHANGED <<pos, mark, printed>>

Store(c) ==
    /\ Goes(c, "store", "wrap")
    /\ pos' = reg[c] + RowStep /\ reg' = [reg EXCEPT ![c] = reg[c] + RowStep]
    /\ UNCHANGED <<mark, printed>>

(* variant: the last row is tested for, not passed *)
BehindLast(p) == p > Bottom + RowStep
Behind(p) == p > Bottom

TestRow(c) ==
    /\ \E p \in {reg[c], pos} :
         IF Behind(p) THEN Goes(c, "wrap", "clear") ELSE Goes(c, "wrap", "out")
    /\ reg' = [reg EXCEPT ![c] = Top]
    /\ UNCHANGED <<pos, mark, printed>>

(* Rows 300 to 539 are cleared: the mark stays. *)
Wrap(c) ==
    /\ Goes(c, "clear", "out") /\ pos' = Top
    /\ UNCHANGED <<mark, reg, printed>>

KernelDebugPrintfCallback(c) ==
    \/ PrintLine(c) \/ TestMark(c) \/ ResetPos(c) \/ SetMark(c) \/ BlitString(c)
    \/ Load(c) \/ Store(c) \/ TestRow(c) \/ Wrap(c)

(* Another program fills the framebuffer. *)
Overdraw ==
    /\ mark /\ mark' = FALSE
    /\ UNCHANGED <<pos, at, reg, printed>>

LogNext == Overdraw \/ \E c \in Core : KernelDebugPrintfCallback(c)
LogSpec == LogInit /\ [][LogNext]_lvars

-----------------------------------------------------------------------------
(* However the callers overlap and whatever additions they lose, the rows a
   line is drawn on lie above the screen's end unless another caller has still
   to take pos back: the overrun does not outlive the calls that made it. *)
PosHeals ==
    /\ Top <= pos
    /\ pos > Bottom => \E c \in Core : at[c] \in {"wrap", "clear"}
=============================================================================
