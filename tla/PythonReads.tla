---------------------------- MODULE PythonReads -----------------------------
(***************************************************************************)
(* The static check of a program for execute_code                          *)
(* (_PythonProtectedReadChecker of sensitive_paths.py) and, beside it, the *)
(* executions that the program may have.                                   *)
(*                                                                         *)
(* A program is given one statement at a time, in the order in which the   *)
(* checker visits it: an import, an assignment, a read, or the beginning,  *)
(* the else and the end of an if.  The checker keeps what each name may    *)
(* be; "runs" holds what the names are in each execution that comes to     *)
(* this statement.  Strings are sequences of pieces: +, f-strings,         *)
(* os.path.join and / all put one after the other.                         *)
(*                                                                         *)
(* Left out, as the checker does not follow them either: loops, try,       *)
(* functions, assignments to anything but one name.                        *)
(*                                                                         *)
(* A definition marked "mutant" is not part of the model: it is a wrong    *)
(* version of the definition below it, kept to test the properties.        *)
(***************************************************************************)
EXTENDS SensitivePaths, Naturals, Sequences

CONSTANTS
    Var,          \* names of variables
    Reader,       \* what opens a file: open, an alias, Path(..).read_text, os.open
    Builtin,      \* the readers that need no import
    Piece,        \* pieces of strings
    Expr,         \* expressions, see below
    Leads,        \* the path that a string names: a function on some strings
    MaxCombos,    \* MAX_PATH_CANDIDATE_COMBOS
    MaxStatements \* bound: statements of a program

ASSUME PythonAssumption ==
    /\ Builtin \subseteq Reader
    /\ \A e \in Expr :
         /\ e.op \in {"just", "join", "true", "false", "dynamic"}
         /\ \A a \in {e.left, e.right} :
              \/ a.kind = "string" /\ a.of \in Seq(Piece)
              \/ a.kind = "name" /\ a.of \in Var
              \/ a.kind = "other"
    /\ \A s \in DOMAIN Leads : Leads[s] \in Path

VARIABLES
    env,      \* the checker's binding of each name
    readers,  \* its names for readers
    open,     \* the ifs it is in
    hits,     \* a protected read was found, or the check failed
    runs,     \* the executions that are here
    opened,   \* paths that executions have opened
    left      \* statements still to come

checkerVars == <<env, readers, open, hits>>
pythonVars  == <<checkerVars, runs, opened, left>>

-----------------------------------------------------------------------------
(* Expressions: an atom is a string, a name or a call the checker knows    *)
(* nothing about.                                                          *)

Str(s)  == [kind |-> "string", of |-> s]
Id(x)   == [kind |-> "name", of |-> x]
Other   == [kind |-> "other", of |-> <<>>]
Just(a)            == [op |-> "just", left |-> a, right |-> a]
Join(a, b)         == [op |-> "join", left |-> a, right |-> b]
Choose(test, a, b) == [op |-> test, left |-> a, right |-> b]
                         \* test: "true", "false" or "dynamic"

\* _PathBinding.  A name without a binding is one nothing is known of.
Unknown  == [values |-> {}, unknown |-> TRUE]
Known(S) == [values |-> S, unknown |-> FALSE]
Union(b, c) == [values |-> b.values \cup c.values, unknown |-> b.unknown \/ c.unknown]

Atom(a) ==
    CASE a.kind = "string" -> Known({a.of})
      [] a.kind = "name"   -> env[a.of]
      [] a.kind = "other"  -> Unknown

\* _bounded_product_strings raises: the check fails closed.
TooMany(e) ==
    e.op = "join" /\
      Cardinality(Atom(e.left).values) * Cardinality(Atom(e.right).values) > MaxCombos

Joined(b, c) ==
    IF b.values = {} \/ c.values = {} THEN Unknown
    ELSE [values |-> UNION {{s \o t : t \in c.values} : s \in b.values},
          unknown |-> b.unknown \/ c.unknown]

\* _candidates
Candidates(e) ==
    CASE e.op = "join"    -> Joined(Atom(e.left), Atom(e.right))
      [] e.op = "dynamic" -> Union(Atom(e.left), Atom(e.right))
      [] e.op = "false"   -> Atom(e.right)
      [] e.op \in {"just", "true"} -> Atom(e.left)

Protected(s) == s \in DOMAIN Leads /\ PathProtected(Leads[s])

-----------------------------------------------------------------------------
(* Executions.  A variable is a string, Dynamic, or Unset; a statement     *)
(* that uses an unset variable ends the execution.                         *)

Dynamic == [is |-> "dynamic"]
Unset   == [is |-> "unset"]
Text(s) == [is |-> "text", text |-> s]

Value(a, r) ==
    CASE a.kind = "string" -> Text(a.of)
      [] a.kind = "name"   -> r.vals[a.of]
      [] a.kind = "other"  -> Dynamic

Outcomes(e, r) ==
    LET lhs == Value(e.left, r)
        rhs == Value(e.right, r)
        all == CASE e.op \in {"just", "true"} -> {lhs}
                 [] e.op = "false"   -> {rhs}
                 [] e.op = "dynamic" -> {lhs, rhs}
                 [] e.op = "join"    ->
                      IF Unset \in {lhs, rhs} THEN {Unset}
                      ELSE IF Dynamic \in {lhs, rhs} THEN {Dynamic}
                      ELSE {Text(lhs.text \o rhs.text)}
    IN  all \ {Unset}

-----------------------------------------------------------------------------
(* The statements.                                                         *)

\* The checker does not go into the dead branch of a constant condition.
Visits == open = <<>> \/ open[Len(open)].visits

\* Room is left for every else and end that is due.
Due == 2 * Cardinality({i \in DOMAIN open : open[i].branch = "body"})
         + Cardinality({i \in DOMAIN open : open[i].branch = "else"})

Statement == ~ hits /\ left > Due /\ left' = left - 1

\* visit_ImportFrom, visit_Import: a name added is never taken away.
Import ==
    /\ Statement
    /\ \E rd \in Reader \ Builtin :
         /\ readers' = IF Visits THEN readers \cup {rd} ELSE readers
         /\ runs' = {[r EXCEPT !.readers = @ \cup {rd}] : r \in runs}
    /\ UNCHANGED <<env, open, hits, opened>>

\* visit_Assign and _bind_name
Assign ==
    /\ Statement
    /\ \E x \in Var, e \in Expr :
         /\ IF ~ Visits THEN UNCHANGED <<env, hits>>
            ELSE /\ hits' = TooMany(e)
                 /\ env' = IF TooMany(e) THEN env
                           ELSE [env EXCEPT ![x] = Candidates(e)]
         /\ runs' = UNION {{[r EXCEPT !.vals[x] = v] : v \in Outcomes(e, r)} : r \in runs}
    /\ UNCHANGED <<readers, open, opened>>

\* _is_os_open_call, _is_path_ctor_call: by the names that its imports gave it.
Recognised(rd) == rd \in readers

\* visit_Call on open(e), os.open(e), Path(e).read_text() ...
Read ==
    /\ Statement
    /\ \E rd \in Reader, e \in Expr :
         LET able == {r \in runs : rd \in r.readers}
             reached(r) == {v.text : v \in {w \in Outcomes(e, r) : w # Dynamic}}
         IN  /\ hits' = (Visits /\ Recognised(rd) /\
                           (TooMany(e) \/ \E s \in Candidates(e).values : Protected(s)))
             /\ runs' = {r \in able : Outcomes(e, r) # {}}
             /\ opened' = opened \cup
                  {Leads[s] : s \in (UNION {reached(r) : r \in able}) \cap DOMAIN Leads}
    /\ UNCHANGED <<env, readers, open>>

\* visit_If: the two branches start from the same bindings.
If ==
    /\ Statement /\ left > Due + 2
    /\ \E test \in {"true", "false", "dynamic"} :
         /\ open' = Append(open, [test   |-> test,
                                  branch |-> "body",
                                  outer  |-> Visits,
                                  visits |-> Visits /\ test # "false",
                                  env    |-> env,
                                  runs   |-> runs])
         /\ runs' = IF test = "false" THEN {} ELSE runs
    /\ UNCHANGED <<env, readers, hits, opened>>

\* Before the else, the bindings of the body are put aside.
Else ==
    LET top == open[Len(open)]
    IN  /\ ~ hits /\ left' = left - 1
        /\ open # <<>> /\ top.branch = "body"
        /\ open' = [open EXCEPT ![Len(open)] =
                      [top EXCEPT !.branch = "else",
                                  !.visits = top.outer /\ top.test # "true",
                                  !.env    = env,
                                  !.runs   = runs]]
        /\ env' = IF top.test = "dynamic" THEN top.env ELSE env
        /\ runs' = IF top.test = "true" THEN {} ELSE top.runs
        /\ UNCHANGED <<readers, hits, opened>>

\* _merge_envs: a name that one branch does not bind is unknown there, and what
\* the other branch binds it to is kept.
MergedAsUnknown(b, c) ==                                           \* mutant
    IF Unknown \in {b, c} THEN Unknown ELSE Union(b, c)
MergedBinding(b, c) == Union(b, c)

EndIf ==
    LET top == open[Len(open)]
    IN  /\ ~ hits /\ left' = left - 1
        /\ open # <<>> /\ top.branch = "else"
        /\ open' = SubSeq(open, 1, Len(open) - 1)
        /\ env' = IF top.outer /\ top.test = "dynamic"
                  THEN [x \in Var |-> MergedBinding(top.env[x], env[x])]
                  ELSE env
        /\ runs' = runs \cup top.runs
        /\ UNCHANGED <<readers, hits, opened>>

Visit == Import \/ Assign \/ Read \/ If \/ Else \/ EndIf

\* Every if has ended, or the checker has seen enough.
Visited == hits \/ open = <<>>

PythonInit ==
    /\ env = [x \in Var |-> Unknown]
    /\ readers = Builtin
    /\ open = <<>>
    /\ hits = FALSE
    /\ runs = {[vals |-> [x \in Var |-> Unset], readers |-> Builtin]}
    /\ opened = {}
    /\ left = MaxStatements

\* The checker and the program are done with.
Forget ==
    /\ env' = [x \in Var |-> Unknown]
    /\ readers' = Builtin
    /\ open' = <<>>
    /\ hits' = FALSE
    /\ runs' = {[vals |-> [x \in Var |-> Unset], readers |-> Builtin]}
    /\ left' = MaxStatements

-----------------------------------------------------------------------------
\* What a variable is in an execution, the checker knows it may be.
BindingsCover ==
    ~ hits => \A r \in runs, x \in Var : r.vals[x].is = "text" => r.vals[x].text \in env[x].values

=============================================================================
