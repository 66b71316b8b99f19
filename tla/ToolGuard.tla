----------------------------- MODULE ToolGuard ------------------------------
(***************************************************************************)
(* The first half of on_transform_tool_result (hooks.py): does the call    *)
(* whose result this is name a protected file?                             *)
(*                                                                         *)
(* A call is of a file reader or a search with the paths of its arguments, *)
(* of a terminal with the paths its command mentions and how, of           *)
(* execute_code with a program, or of another tool.  A program comes as    *)
(* PythonReads has it, statement by statement; its text mentions no path   *)
(* in one piece, which the guard would look for as in a command.           *)
(***************************************************************************)
EXTENDS PythonReads

CONSTANTS
    Calls,   \* calls of tools other than execute_code
    Cwd      \* the directory that a search takes when it is given none

ASSUME ToolGuardAssumption ==
    /\ Cwd \in Path
    /\ \A c \in Calls :
         /\ c.tool \in {"read", "search", "terminal", "other"}
         /\ c.tool \in {"read", "search"} => c.paths \subseteq Path
         /\ c.tool = "terminal" => \A m \in c.mentions : m.path \in Path

VARIABLES
    looking, \* what the guard looks at: "nothing", "program"
    leaked   \* history: the result it let through came from a sensitive file

guardVars == <<pythonVars, looking, leaked>>

-----------------------------------------------------------------------------

\* extract_path_candidates
SearchRoots(c) == IF c.paths = {} THEN {Cwd} ELSE c.paths

\* terminal_command_reads_protected: what follows a reader's name, and tokens
\* that look like a protected path.
Mentioned(c) == {m.path : m \in {n \in c.mentions : n.how \in {"read", "token"}}}

\* args_target_protected, terminal_command_reads_protected
Refused(c) ==
    CASE c.tool = "read"     -> \E p \in c.paths : PathProtected(p)
      [] c.tool = "search"   -> \E p \in SearchRoots(c) : SearchProtected(p)
      [] c.tool = "terminal" -> \E p \in Mentioned(c) : PathProtected(p)
      [] c.tool = "other"    -> FALSE

\* The files that the call plainly reads.
Looked(c) ==
    CASE c.tool = "read"     -> UNION {ReadFrom(p) : p \in c.paths}
      [] c.tool = "search"   -> UNION {SearchedFrom(p) : p \in SearchRoots(c)}
      [] c.tool = "terminal" ->
           UNION {ReadFrom(m.path) : m \in {n \in c.mentions : n.how = "read"}}
      [] c.tool = "other"    -> {}

FromSensitive(files) == \E f \in files : Sensitive(f)

-----------------------------------------------------------------------------

\* A program's result: python_code_reads_protected goes through the program.
LookAtProgram ==
    /\ looking' = "program"
    /\ leaked' = FALSE
    /\ UNCHANGED pythonVars

VisitStatement ==
    /\ looking = "program"
    /\ Visit
    /\ UNCHANGED <<looking, leaked>>

\* The verdict.  "passes" is whether the result goes on to the result guard.
ProgramVerdict(passes) ==
    /\ looking = "program"
    /\ Visited /\ passes = ~ hits
    /\ looking' = "nothing"
    /\ leaked' = (passes /\ FromSensitive({Real[p] : p \in opened}))
    /\ Forget
    /\ opened' = {}

CallVerdict(c, passes) ==
    /\ looking = "nothing"
    /\ passes = ~ Refused(c)
    /\ leaked' = (passes /\ FromSensitive(Looked(c)))
    /\ UNCHANGED <<pythonVars, looking>>

GuardInit == PythonInit /\ looking = "nothing" /\ leaked = FALSE

=============================================================================
