---------------------------- MODULE EgressProofs ----------------------------
(***************************************************************************)
(* What Egress promises, for every conversation, configuration, file       *)
(* system and program: no registered secret and no private key leaves, no  *)
(* result that plainly comes from a sensitive file comes in, what the user *)
(* says now is kept, what has been prepared is passed unchanged, and a     *)
(* request with trouble in few leaves of its history is not blocked.       *)
(*                                                                         *)
(* First the part that rests on no state of a request.  Whatever the file  *)
(* system, its links and the layout of the profile are, the rules of       *)
(* sensitive_paths.py find every path that leads to a sensitive file, and  *)
(* every search that looks into one.  A path is looked at twice, as it is  *)
(* spelled and at the place that it leads to; the proof needs the second   *)
(* look only.  That is what lets the first one be lenient towards public   *)
(* keys.                                                                   *)
(*                                                                         *)
(* Then the checker of programs: as long as it has found nothing, no       *)
(* execution has opened a protected path.  It keeps one set of bindings,   *)
(* puts it aside at an else and merges it at the end of an if; it does not *)
(* visit branches that it knows to be dead.  The invariant therefore says, *)
(* for every if that the checker is in, that what was put aside covers the *)
(* executions that wait there, that no execution is in a branch that is    *)
(* not visited, and that nothing has changed the bindings in such a branch.*)
(***************************************************************************)
EXTENDS Egress, SequenceTheorems, FiniteSetTheorems, WellFoundedInduction, TLAPS

-----------------------------------------------------------------------------
(* The paths.                                                              *)

\* A place and what is above it are spelled as they are.
LEMMA PlacesAreReal ==
    ASSUME NEW p \in Path
    PROVE  /\ Real[p] \in Path /\ Real[Real[p]] = Real[p]
           /\ Above[Real[p]] \subseteq Path
           /\ \A q \in Above[Real[p]] : Real[q] = q
BY FileSystem

-----------------------------------------------------------------------------
(* The store.                                                              *)

\* The directory of the plugins is above the package, and whatever else above the
\* package has that name is above it, or it.
LEMMA PluginsOfTheProfile ==
    \E plugins \in NearestAnchor :
        /\ plugins \in Path /\ ChildOf(plugins, Profile)
        /\ Anchors \subseteq Above[plugins]
<1>1. PICK plugins \in Path, plugin \in Path :
          /\ ChildOf(plugins, Profile) /\ Name[plugins] = PluginsDir
          /\ ChildOf(plugin, plugins) /\ Name[plugin] # PluginsDir
          /\ ChildOf(Real[Package], plugin)
    BY Installed
<1>2. Above[Real[Package]] = Above[plugins] \cup {plugin, Real[Package]}
    BY <1>1 DEF ChildOf
<1>3. Anchors \subseteq Above[plugins]
    BY <1>1, <1>2 DEF Anchors
<1>4. plugins \in Anchors
  <2>1. plugins \in Above[plugins]
      BY <1>1, FileSystem
  <2>2. plugins # Real[Package]
      \* It is not below itself.
    <3> SUFFICES ASSUME plugins = Real[Package] PROVE FALSE
        OBVIOUS
    <3>1. plugin \in Above[plugins] /\ plugins \in Above[plugin]
        BY <1>1, <1>2, <2>1, FileSystem DEF ChildOf
    <3>2. plugin = plugins
        BY <1>1, <3>1, FileSystem
    <3> QED BY <1>1, <3>2
  <2> QED BY <1>1, <1>2, <2>1, <2>2 DEF Anchors
<1> QED BY <1>1, <1>3, <1>4 DEF NearestAnchor

\* A path has one parent.
LEMMA OneParent ==
    ASSUME NEW p \in Path, NEW q \in Path, NEW r \in Path, ChildOf(p, q), ChildOf(p, r)
    PROVE  q = r
<1>1. q \in Above[p] /\ r \in Above[p] /\ q \in Above[q] /\ r \in Above[r]
    BY FileSystem DEF ChildOf
<1>2. q \in Above[r] /\ r \in Above[q]
    BY <1>1 DEF ChildOf
<1> QED BY <1>2, FileSystem

\* The store that is derived from the package is the one of the profile it is
\* installed in, also if a directory above the profile is named like the plugins'.
THEOREM StoreIsOfTheProfile == Store = StoreOf(Profile)
<1>1. PICK plugins \in NearestAnchor :
          /\ plugins \in Path /\ ChildOf(plugins, Profile)
          /\ Anchors \subseteq Above[plugins]
    BY PluginsOfTheProfile
<1>2. ASSUME NEW a \in NearestAnchor PROVE a = plugins
  <2>1. a \in Above[plugins] /\ plugins \in Above[a] /\ a \in Path
      BY <1>1, FileSystem DEF NearestAnchor, Anchors
  <2> QED BY <1>1, <2>1, FileSystem
<1>3. Profile \in Path
    BY FileSystem
<1>4. {r \in Path : \E a \in NearestAnchor : ChildOf(a, r)} = {Profile}
    BY <1>1, <1>2, <1>3, OneParent
<1> QED BY <1>4 DEF Store

-----------------------------------------------------------------------------
(* Reads and searches.                                                     *)

\* A sensitive place is protected.
LEMMA PlaceProtected ==
    ASSUME NEW f \in Path, Real[f] = f, Sensitive(f)
    PROVE  StoreFileProtected(f) \/ SshFileProtected(f)
<1>1. CASE \E dir \in StoreOf(Profile) : Real[dir] \in Above[f]
    BY <1>1, StoreIsOfTheProfile DEF StoreFileProtected, InStore, IsUnder
<1>2. CASE Real[Ssh] \in Above[f]
           /\ (Name[f] \in KeyName
               \/ (Name[f] \notin PublicName
                   /\ \E d \in Above[f] : Name[d] = KeyDir /\ ChildOf(d, Real[Ssh])))
    BY <1>2 DEF SshFileProtected, SshNamed, KeyNamed, InSsh, IsUnder, BelowKeyDir
<1> QED BY <1>1, <1>2 DEF Sensitive

\* Reading a path that leads to a sensitive file is protected, however the path is
\* spelled (path_is_protected).
THEOREM ReadsProtected ==
    \A p \in Path : \A f \in ReadFrom(p) : Sensitive(f) => PathProtected(p)
BY PlacesAreReal, PlaceProtected DEF ReadFrom, PathProtected

\* Searching below a path is protected if the search looks into a sensitive file
\* (search_path_is_protected).
THEOREM SearchesProtected ==
    \A p \in Path : \A f \in SearchedFrom(p) : Sensitive(f) => SearchProtected(p)
<1> SUFFICES ASSUME NEW p \in Path, NEW f \in Path, f \in Exists, Real[f] = f,
                    Real[p] \in Above[f], Sensitive(f)
             PROVE  SearchProtected(p)
    BY DEF SearchedFrom
<1>1. CASE \E dir \in StoreOf(Profile) : Real[dir] \in Above[f]
  <2>1. PICK dir \in Store : dir \in Path /\ Real[dir] \in Above[f]
      BY <1>1, StoreIsOfTheProfile DEF StoreOf
  <2>2. dir \in Exists
      BY <2>1, FileSystem
  <2>3. Real[dir] \in Above[Real[p]] \/ Real[p] \in Above[Real[dir]]
      BY <2>1, FileSystem
  <2> QED BY <2>1, <2>2, <2>3 DEF SearchProtected, IsUnder
<1>2. CASE Real[Ssh] \in Above[f]
  <2>1. Ssh \in Exists
      BY <1>2, FileSystem
  <2>2. Real[Ssh] \in Above[Real[p]] \/ Real[p] \in Above[Real[Ssh]]
      BY <1>2, FileSystem
  <2> QED BY <2>1, <2>2 DEF SearchProtected, InSsh, IsUnder
<1> QED BY <1>1, <1>2 DEF Sensitive

-----------------------------------------------------------------------------
(* Types.                                                                  *)

Binding == [values : SUBSET Seq(Piece), unknown : BOOLEAN]
Variable == {Dynamic, Unset} \cup {Text(s) : s \in Seq(Piece)}
Run == [vals : [Var -> Variable], readers : SUBSET Reader]
Frame == [test : {"true", "false", "dynamic"}, branch : {"body", "else"},
          outer : BOOLEAN, visits : BOOLEAN, env : [Var -> Binding], runs : SUBSET Run]

PythonTypeOK ==
    /\ env \in [Var -> Binding]
    /\ readers \subseteq Reader
    /\ open \in Seq(Frame)
    /\ hits \in BOOLEAN
    /\ runs \subseteq Run
    /\ opened \subseteq Path

\* The checker's idea of an expression is a binding.
LEMMA CandidatesTyped ==
    ASSUME PythonTypeOK, NEW e \in Expr
    PROVE  Candidates(e) \in Binding
<1>1. \A a \in {e.left, e.right} : Atom(a) \in Binding
    BY PythonAssumption DEF Atom, Known, Unknown, Binding, PythonTypeOK
<1>2. ASSUME NEW b \in Binding, NEW c \in Binding PROVE Joined(b, c) \in Binding
  <2>1. \A s \in b.values, t \in c.values : s \o t \in Seq(Piece)
      BY ConcatProperties DEF Binding
  <2>2. ASSUME NEW z \in UNION {{s \o t : t \in c.values} : s \in b.values}
        PROVE  z \in Seq(Piece)
    <3>1. PICK s \in b.values : z \in {s \o t : t \in c.values}
        OBVIOUS
    <3> QED BY <2>1, <3>1
  <2>3. b.unknown \/ c.unknown \in BOOLEAN
      BY DEF Binding
  <2> QED BY <2>2, <2>3 DEF Joined, Unknown, Binding
<1>3. ASSUME NEW b \in Binding, NEW c \in Binding PROVE Union(b, c) \in Binding
    BY DEF Union, Binding
<1> QED BY <1>1, <1>2, <1>3, PythonAssumption DEF Candidates

\* So is what it becomes in an execution a value of a variable.
LEMMA OutcomesTyped ==
    ASSUME NEW e \in Expr, NEW r \in Run
    PROVE  Outcomes(e, r) \subseteq Variable
<1>1. \A a \in {e.left, e.right} : Value(a, r) \in Variable
    BY PythonAssumption DEF Value, Variable, Run
<1>2. ASSUME NEW v \in Variable, NEW w \in Variable, v \notin {Dynamic, Unset}, w \notin {Dynamic, Unset}
      PROVE  Text(v.text \o w.text) \in Variable
  <2>1. v.text \in Seq(Piece) /\ w.text \in Seq(Piece)
      BY <1>2 DEF Variable, Text
  <2>2. v.text \o w.text \in Seq(Piece)
      BY <2>1, ConcatProperties
  <2> QED BY <2>2 DEF Variable
<1> DEFINE lhs == Value(e.left, r)
           rhs == Value(e.right, r)
<1>3. lhs \in Variable /\ rhs \in Variable
    BY <1>1
<1>4. Dynamic \in Variable /\ Unset \in Variable
    BY DEF Variable
<1>5. CASE e.op = "join"
  <2>1. CASE Unset \in {lhs, rhs} \/ Dynamic \in {lhs, rhs}
      BY <1>4, <1>5, <2>1 DEF Outcomes
  <2>2. CASE ~ (Unset \in {lhs, rhs} \/ Dynamic \in {lhs, rhs})
      BY <1>2, <1>3, <1>5, <2>2 DEF Outcomes
  <2> QED BY <2>1, <2>2
<1>6. CASE e.op # "join"
    BY <1>3, <1>6, PythonAssumption DEF Outcomes
<1> QED BY <1>5, <1>6

-----------------------------------------------------------------------------
(* What an expression becomes, the checker knows.                          *)

Covers(bindings, R) ==
    \A r \in R, x \in Var : r.vals[x].is = "text" => r.vals[x].text \in bindings[x].values

\* A value that is known is a text.
LEMMA TextOrNot ==
    ASSUME NEW v \in Variable, v \notin {Dynamic, Unset}
    PROVE  v.is = "text"
<1>1. PICK s \in Seq(Piece) : v = Text(s)
    BY DEF Variable
<1> QED BY <1>1 DEF Text

LEMMA CandidatesCover ==
    ASSUME PythonTypeOK, NEW e \in Expr, NEW r \in Run, Covers(env, {r}),
           NEW v \in Outcomes(e, r), v.is = "text"
    PROVE  v.text \in Candidates(e).values
<1>1. ASSUME NEW a \in {e.left, e.right}, Value(a, r).is = "text"
      PROVE  Value(a, r).text \in Atom(a).values
    BY <1>1, PythonAssumption DEF Value, Atom, Covers, Known, Text, Dynamic
<1> DEFINE lhs == Value(e.left, r)
           rhs == Value(e.right, r)
<1>2. lhs \in Variable /\ rhs \in Variable
    BY PythonAssumption DEF Value, Variable, Run
<1>3. CASE e.op \in {"just", "true"}
  <2>1. v = lhs
      BY <1>3 DEF Outcomes
  <2> QED BY <1>1, <1>3, <2>1 DEF Candidates
<1>4. CASE e.op = "false"
  <2>1. v = rhs
      BY <1>4 DEF Outcomes
  <2> QED BY <1>1, <1>4, <2>1 DEF Candidates
<1>5. CASE e.op = "dynamic"
  <2>1. v = lhs \/ v = rhs
      BY <1>5 DEF Outcomes
  <2> QED BY <1>1, <1>5, <2>1 DEF Candidates, Union
<1>6. CASE e.op = "join"
  <2>1. lhs \notin {Dynamic, Unset} /\ rhs \notin {Dynamic, Unset}
      BY <1>6 DEF Outcomes, Dynamic
  <2>2. v = Text(lhs.text \o rhs.text)
      BY <1>6, <2>1 DEF Outcomes
  <2>3. lhs.is = "text" /\ rhs.is = "text"
      BY <1>2, <2>1, TextOrNot
  <2>4. lhs.text \in Atom(e.left).values /\ rhs.text \in Atom(e.right).values
      BY <1>1, <2>3
  <2>5. v.text = lhs.text \o rhs.text
      BY <2>2 DEF Text
  <2>6. Candidates(e) = [values |-> UNION {{s \o t : t \in Atom(e.right).values} : s \in Atom(e.left).values},
                         unknown |-> Atom(e.left).unknown \/ Atom(e.right).unknown]
      BY <1>6, <2>4 DEF Candidates, Joined
  <2>7. v.text \in {lhs.text \o t : t \in Atom(e.right).values}
      BY <2>4, <2>5
  <2>8. v.text \in UNION {{s \o t : t \in Atom(e.right).values} : s \in Atom(e.left).values}
      BY <2>4, <2>7, Zenon
  <2> QED BY <2>6, <2>8
<1> QED BY <1>3, <1>4, <1>5, <1>6, PythonAssumption

-----------------------------------------------------------------------------
(* The invariant.                                                          *)

\* What was put aside at an if covers the executions that wait there; where the
\* checker does not look there are none, and nothing has changed its bindings.
FrameInv(f) ==
    /\ f.visits => f.outer
    /\ f.visits /\ f.branch = "body" => f.test # "false"
    /\ f.visits /\ f.branch = "else" => f.test # "true"
    /\ ~ f.visits => f.env = env /\ runs = {}
    /\ ~ f.outer => f.runs = {}
    /\ f.branch = "else" /\ f.test = "false" => f.runs = {}
    /\ Covers(f.env, f.runs)
    /\ \A r \in f.runs : r.readers \subseteq readers

\* An if inside a branch that is not visited is not visited either.
Nested == \A i, j \in 1..Len(open) : i < j /\ ~ open[i].visits => ~ open[j].outer

Sound ==
    /\ \A i \in 1..Len(open) : FrameInv(open[i])
    /\ Nested
    /\ Covers(env, runs)
    /\ \A r \in runs : r.readers \subseteq readers
    /\ \A p \in opened : ~ PathProtected(p)

PythonInv == PythonTypeOK /\ (~ hits => Sound)

\* If the checker does not visit a statement, no execution comes to it; if it
\* does, it visits the body or the else of every if around it.
LEMMA VisitsOrNot ==
    ASSUME PythonTypeOK, Sound
    PROVE  /\ Len(open) \in Nat /\ DOMAIN open = 1..Len(open)
           /\ open # <<>> => Len(open) \in 1..Len(open) /\ open[Len(open)] \in Frame
           /\ \A i \in 1..Len(open) : open[i] \in Frame
           /\ Visits => \A i \in 1..Len(open) : open[i].visits
           /\ ~ Visits => runs = {}
<1>1. Len(open) \in Nat /\ DOMAIN open = 1..Len(open) /\ \A i \in 1..Len(open) : open[i] \in Frame
    BY LenProperties, ElementOfSeq DEF PythonTypeOK
<1>2. open # <<>> => Len(open) \in 1..Len(open)
    BY <1>1, EmptySeq DEF PythonTypeOK
<1>3. ASSUME Visits, NEW i \in 1..Len(open) PROVE open[i].visits
  <2>1. open # <<>>
      BY <1>1
  <2>2. open[Len(open)].visits
      BY <1>3, <2>1 DEF Visits
  <2> QED BY <1>1, <1>2, <2>1, <2>2 DEF Sound, FrameInv, Nested
<1>4. ~ Visits => runs = {}
    BY <1>2 DEF Visits, Sound, FrameInv
<1> QED BY <1>1, <1>2, <1>3, <1>4

\* The checker starts with nothing, and the program with unset variables.
LEMMA PythonInvInit == PythonInit => PythonInv
<1> SUFFICES ASSUME PythonInit PROVE PythonInv
    OBVIOUS
<1>1. open = <<>> /\ open \in Seq(Frame) /\ Len(open) = 0
    BY EmptySeq DEF PythonInit
<1>2. PythonTypeOK
  <2>1. Unknown \in Binding
      BY DEF Unknown, Binding
  <2>2. Unset \in Variable
      BY DEF Variable
  <2>3. [vals |-> [x \in Var |-> Unset], readers |-> Builtin] \in Run
      BY <2>2, PythonAssumption DEF Run
  <2> QED BY <1>1, <2>1, <2>3, PythonAssumption DEF PythonInit, PythonTypeOK
<1>3. Sound
    BY <1>1 DEF PythonInit, Sound, Nested, Covers, Unset
<1> QED BY <1>2, <1>3 DEF PythonInv

LEMMA ImportSound ==
    ASSUME PythonInv, Import
    PROVE  PythonInv'
<1> USE DEF Import, Statement, PythonInv
<1>1. PICK rd \in Reader \ Builtin :
          /\ readers' = IF Visits THEN readers \cup {rd} ELSE readers
          /\ runs' = {[r EXCEPT !.readers = @ \cup {rd}] : r \in runs}
    OBVIOUS
<1>2. ASSUME NEW q \in runs'
      PROVE  \E r \in runs : q = [r EXCEPT !.readers = r.readers \cup {rd}] /\ r \in Run
    BY <1>1 DEF PythonTypeOK
<1>3. PythonTypeOK'
    BY <1>1, <1>2 DEF PythonTypeOK, Run
<1>4. Sound
  <2>1. ~ hits
      BY Zenon DEF Import, Statement
  <2> QED BY <2>1, Zenon DEF PythonInv
<1>5. runs = {} => runs' = {}
    BY <1>1
<1>6. ASSUME NEW q \in runs', NEW x \in Var
      PROVE  /\ q.vals[x].is = "text" => q.vals[x].text \in env[x].values
             /\ q.readers \subseteq readers'
  <2>1. PICK r \in runs : q = [r EXCEPT !.readers = r.readers \cup {rd}] /\ r \in Run
      BY <1>2
  <2>2. q.vals = r.vals /\ q.readers = r.readers \cup {rd}
      BY <2>1 DEF Run
  <2>3. Visits
      BY <1>4, VisitsOrNot
  <2> QED BY <1>1, <1>4, <2>2, <2>3 DEF Sound, Covers
<1>7. \A q \in runs' : q.readers \subseteq readers'
  <2> SUFFICES ASSUME NEW q \in runs' PROVE q.readers \subseteq readers'
      OBVIOUS
  <2>1. PICK r \in runs : q = [r EXCEPT !.readers = r.readers \cup {rd}] /\ r \in Run
      BY <1>2
  <2>2. q.readers = r.readers \cup {rd}
      BY <2>1 DEF Run
  <2>3. Visits
      BY <1>4, VisitsOrNot
  <2> QED BY <1>1, <1>4, <2>2, <2>3 DEF Sound
<1>8. readers \subseteq readers'
    BY <1>1
<1>9. \A i \in 1..Len(open) : FrameInv(open[i])'
    BY <1>4, <1>5, <1>8 DEF Sound, FrameInv, Covers
<1>10. Sound'
    BY <1>4, <1>6, <1>7, <1>9 DEF Sound, Nested, Covers
<1> QED BY <1>3, <1>10

LEMMA AssignSound ==
    ASSUME PythonInv, Assign
    PROVE  PythonInv'
<1>1. PICK x \in Var, e \in Expr :
         /\ IF ~ Visits THEN UNCHANGED <<env, hits>>
            ELSE /\ hits' = TooMany(e)
                 /\ env' = IF TooMany(e) THEN env ELSE [env EXCEPT ![x] = Candidates(e)]
         /\ runs' = UNION {{[r EXCEPT !.vals[x] = v] : v \in Outcomes(e, r)} : r \in runs}
    BY DEF Assign
<1>2. Sound /\ PythonTypeOK
  <2>1. ~ hits
      BY Zenon DEF Assign, Statement
  <2> QED BY <2>1, Zenon DEF PythonInv
<1>3. UNCHANGED <<readers, open, opened>>
    BY DEF Assign
<1>4. ASSUME NEW q \in runs'
      PROVE  \E r \in runs : \E v \in Outcomes(e, r) : q = [r EXCEPT !.vals[x] = v]
  <2>1. PICK r \in runs : q \in {[r EXCEPT !.vals[x] = v] : v \in Outcomes(e, r)}
      BY <1>1
  <2> QED BY <2>1
<1>5. ASSUME NEW r \in runs, NEW v \in Outcomes(e, r)
      PROVE  LET q == [r EXCEPT !.vals[x] = v] IN
             /\ q \in Run /\ q.readers = r.readers /\ q.vals[x] = v
             /\ \A y \in Var \ {x} : q.vals[y] = r.vals[y]
  <2>1. r \in Run /\ v \in Variable
      BY <1>2, OutcomesTyped DEF PythonTypeOK
  <2> QED BY <2>1 DEF Run
<1>6. PythonTypeOK'
  <2>1. runs' \subseteq Run
      BY <1>4, <1>5
  <2>2. env' \in [Var -> Binding] /\ hits' \in BOOLEAN
      BY <1>1, <1>2, CandidatesTyped DEF PythonTypeOK, TooMany
  <2> QED BY <1>2, <1>3, <2>1, <2>2 DEF PythonTypeOK
<1>7. \A q \in runs' : q.readers \subseteq readers'
  <2> SUFFICES ASSUME NEW q \in runs' PROVE q.readers \subseteq readers'
      OBVIOUS
  <2>1. PICK r \in runs : \E v \in Outcomes(e, r) : q = [r EXCEPT !.vals[x] = v]
      BY <1>4
  <2>2. q.readers = r.readers
      BY <1>5, <2>1
  <2> QED BY <1>2, <1>3, <2>2 DEF Sound
<1>8. CASE ~ Visits
  <2>1. runs' = {} /\ runs = {} /\ env' = env
      BY <1>1, <1>2, <1>8, VisitsOrNot
  <2>2. \A i \in 1..Len(open) : FrameInv(open[i])'
      BY <1>2, <1>3, <2>1 DEF Sound, FrameInv, Covers
  <2> QED BY <1>2, <1>3, <1>6, <2>1, <2>2 DEF PythonInv, Sound, Nested, Covers
<1>9. CASE Visits /\ ~ TooMany(e)
  <2>1. env' = [env EXCEPT ![x] = Candidates(e)]
      BY <1>1, <1>9
  <2>2. \A i \in 1..Len(open) : FrameInv(open[i])'
      BY <1>2, <1>3, <1>9, VisitsOrNot DEF Sound, FrameInv, Covers
  <2>3. ASSUME NEW q \in runs', NEW y \in Var, q.vals[y].is = "text"
        PROVE  q.vals[y].text \in env'[y].values
    <3>1. PICK r \in runs : \E v \in Outcomes(e, r) : q = [r EXCEPT !.vals[x] = v]
        BY <1>4
    <3>2. PICK v \in Outcomes(e, r) : q = [r EXCEPT !.vals[x] = v]
        BY <3>1
    <3>3. r \in Run /\ Covers(env, {r})
        BY <1>2 DEF PythonTypeOK, Sound, Covers
    <3>4. CASE y = x
        BY <1>2, <1>5, <2>1, <2>3, <3>2, <3>3, <3>4, CandidatesCover DEF PythonTypeOK
    <3>5. CASE y # x
        BY <1>2, <1>5, <2>1, <2>3, <3>2, <3>3, <3>5 DEF PythonTypeOK, Covers
    <3> QED BY <3>4, <3>5
  <2>4. Covers(env, runs)'
      BY <2>3 DEF Covers
  <2> QED BY <1>2, <1>3, <1>6, <1>7, <2>2, <2>4 DEF PythonInv, Sound, Nested
<1>10. CASE Visits /\ TooMany(e)
    BY <1>1, <1>6, <1>10 DEF PythonInv
<1> QED BY <1>8, <1>9, <1>10

LEMMA ReadSound ==
    ASSUME PythonInv, Read
    PROVE  PythonInv'
<1> DEFINE able(rd) == {r \in runs : rd \in r.readers}
           reached(e, r) == {v.text : v \in {w \in Outcomes(e, r) : w # Dynamic}}
<1>1. PICK rd \in Reader, e \in Expr :
         /\ hits' = (Visits /\ rd \in readers /\
                       (TooMany(e) \/ \E s \in Candidates(e).values : Protected(s)))
         /\ runs' = {r \in able(rd) : Outcomes(e, r) # {}}
         /\ opened' = opened \cup
              {Leads[s] : s \in (UNION {reached(e, r) : r \in able(rd)}) \cap DOMAIN Leads}
    BY DEF Read, Recognised
<1>2. Sound /\ PythonTypeOK
  <2>1. ~ hits
      BY Zenon DEF Read, Statement
  <2> QED BY <2>1, Zenon DEF PythonInv
<1>3. UNCHANGED <<env, readers, open>>
    BY DEF Read
<1>4. runs' \subseteq runs
    BY <1>1
<1>5. ASSUME NEW p \in opened', p \notin opened
      PROVE  \E s \in DOMAIN Leads : \E r \in able(rd) : s \in reached(e, r) /\ p = Leads[s]
  <2>1. PICK s \in (UNION {reached(e, r) : r \in able(rd)}) \cap DOMAIN Leads : p = Leads[s]
      BY <1>1, <1>5
  <2>2. PICK R \in {reached(e, r) : r \in able(rd)} : s \in R
      BY <2>1
  <2>3. PICK r \in able(rd) : R = reached(e, r)
      BY <2>2
  <2> HIDE DEF able, reached
  <2> QED BY <2>1, <2>2, <2>3
<1>6. PythonTypeOK'
  <2>1. opened' \subseteq Path
      BY <1>2, <1>5, PythonAssumption DEF PythonTypeOK
  <2>2. hits' \in BOOLEAN
      BY <1>1
  <2> QED BY <1>2, <1>3, <1>4, <2>1, <2>2 DEF PythonTypeOK
<1>7. ASSUME ~ hits', NEW p \in opened' PROVE ~ PathProtected(p)
  <2>1. CASE p \in opened
      BY <1>2, <2>1 DEF Sound
  <2>2. CASE p \notin opened
    <3>1. PICK s \in DOMAIN Leads : \E r \in able(rd) : s \in reached(e, r) /\ p = Leads[s]
        BY <1>5, <2>2
    <3>2. PICK r \in able(rd) : s \in reached(e, r)
        BY <3>1
    <3>3. PICK v \in Outcomes(e, r) : v # Dynamic /\ s = v.text
        BY <3>2
    <3>4. r \in Run /\ Covers(env, {r})
        BY <1>2 DEF PythonTypeOK, Sound, Covers
    <3>5. v.is = "text"
      <4>1. v \in Variable /\ v # Unset
          BY <3>4, OutcomesTyped DEF Outcomes
      <4> QED BY <3>3, <4>1, TextOrNot
    <3>6. s \in Candidates(e).values
        BY <1>2, <3>3, <3>4, <3>5, CandidatesCover
    <3>7. Visits /\ rd \in readers
        BY <1>2, VisitsOrNot DEF Sound
    <3>8. ~ Protected(s)
        BY <1>1, <1>7, <3>6, <3>7
    <3> QED BY <3>1, <3>8 DEF Protected
  <2> QED BY <2>1, <2>2
<1>8. \A i \in 1..Len(open) : FrameInv(open[i])'
    BY <1>2, <1>3, <1>4 DEF Sound, FrameInv, Covers
<1>9. Covers(env, runs)' /\ \A r \in runs' : r.readers \subseteq readers'
    BY <1>2, <1>3, <1>4 DEF Sound, Covers
<1>10. Nested'
    BY <1>2, <1>3 DEF Sound, Nested
<1> QED BY <1>3, <1>6, <1>7, <1>8, <1>9, <1>10 DEF PythonInv, Sound

LEMMA IfSound ==
    ASSUME PythonInv, If
    PROVE  PythonInv'
<1>1. PICK test \in {"true", "false", "dynamic"} :
         /\ open' = Append(open, [test   |-> test,
                                  branch |-> "body",
                                  outer  |-> Visits,
                                  visits |-> Visits /\ test # "false",
                                  env    |-> env,
                                  runs   |-> runs])
         /\ runs' = IF test = "false" THEN {} ELSE runs
    BY DEF If
<1>2. Sound /\ PythonTypeOK
  <2>1. ~ hits
      BY Zenon DEF If, Statement
  <2> QED BY <2>1, Zenon DEF PythonInv
<1>3. UNCHANGED <<env, readers, hits, opened>>
    BY DEF If
<1> DEFINE top == [test |-> test, branch |-> "body", outer |-> Visits,
                   visits |-> Visits /\ test # "false", env |-> env, runs |-> runs]
<1>4. PICK n \in Nat : n = Len(open)
    BY <1>2, VisitsOrNot
<1>5. top \in Frame
  <2>1. Visits \in BOOLEAN
      BY <1>2, VisitsOrNot DEF Visits, Frame
  <2> QED BY <1>2, <2>1 DEF Frame, PythonTypeOK
<1>6. /\ open' \in Seq(Frame) /\ Len(open') = n + 1 /\ n \in Nat
      /\ \A i \in 1..n : open'[i] = open[i]
      /\ open'[n + 1] = top
    BY <1>1, <1>2, <1>4, <1>5, AppendProperties, VisitsOrNot DEF PythonTypeOK
<1>7. PythonTypeOK'
    BY <1>1, <1>2, <1>3, <1>6 DEF PythonTypeOK
<1>8. runs' \subseteq runs
    BY <1>1
<1>9. ASSUME NEW i \in 1..n PROVE FrameInv(open[i])'
  <2>1. FrameInv(open[i]) /\ open'[i] = open[i]
      BY <1>2, <1>4, <1>6 DEF Sound
  <2> QED BY <1>3, <1>8, <2>1 DEF FrameInv, Covers
<1>10. FrameInv(open[n + 1])'
  <2>1. ~ Visits => runs = {}
      BY <1>2, VisitsOrNot
  <2>2. /\ open'[n + 1].env = env /\ open'[n + 1].runs = runs
        /\ open'[n + 1].outer = Visits /\ open'[n + 1].visits = (Visits /\ test # "false")
        /\ open'[n + 1].branch = "body" /\ open'[n + 1].test = test
      BY <1>6
  <2> QED BY <1>1, <1>2, <1>3, <2>1, <2>2 DEF Sound, FrameInv, Covers
<1>11. Nested'
  <2> SUFFICES ASSUME NEW i \in 1..n + 1, NEW j \in 1..n + 1, i < j, ~ open'[i].visits
               PROVE  ~ open'[j].outer
      BY <1>6 DEF Nested
  <2>1. CASE j = n + 1
    <3>1. i \in 1..n
        BY <1>6, <2>1
    <3>2. open'[j].outer = Visits
        BY <1>6, <2>1
    <3>3. ~ open[i].visits /\ i \in 1..Len(open)
        BY <1>4, <1>6, <3>1
    <3> QED BY <1>2, <3>2, <3>3, VisitsOrNot
  <2>2. CASE j # n + 1
    <3>1. i \in 1..n /\ j \in 1..n
        BY <1>6, <2>2
    <3> QED BY <1>2, <1>4, <1>6, <3>1 DEF Sound, Nested
  <2> QED BY <2>1, <2>2
<1>12. Covers(env, runs)' /\ \A r \in runs' : r.readers \subseteq readers'
    BY <1>2, <1>3, <1>8 DEF Sound, Covers
<1>13. \A i \in 1..Len(open') : FrameInv(open[i])'
    BY <1>6, <1>9, <1>10
<1> QED BY <1>2, <1>3, <1>7, <1>11, <1>12, <1>13 DEF PythonInv, Sound

LEMMA ElseSound ==
    ASSUME PythonInv, Else
    PROVE  PythonInv'
<1>1. Sound /\ PythonTypeOK
  <2>1. ~ hits
      BY Zenon DEF Else
  <2> QED BY <2>1, Zenon DEF PythonInv
<1>2. PICK n \in 1..Len(open) : n = Len(open)
    BY <1>1, VisitsOrNot DEF Else
<1>3. PICK top \in Frame : top = open[n]
    BY <1>1, <1>2, VisitsOrNot
<1>4. /\ open # <<>> /\ top.branch = "body"
      /\ open' = [open EXCEPT ![n] = [top EXCEPT !.branch = "else",
                                                 !.visits = top.outer /\ top.test # "true",
                                                 !.env    = env,
                                                 !.runs   = runs]]
      /\ env' = IF top.test = "dynamic" THEN top.env ELSE env
      /\ runs' = IF top.test = "true" THEN {} ELSE top.runs
      /\ UNCHANGED <<readers, hits, opened>>
    BY <1>2, <1>3 DEF Else
<1>5. n \in 1..n /\ n \in Nat /\ open \in Seq(Frame) /\ n = Len(open)
    BY <1>1, <1>2, VisitsOrNot DEF PythonTypeOK
<1>6. [top EXCEPT !.branch = "else", !.visits = top.outer /\ top.test # "true",
                  !.env = env, !.runs = runs] \in Frame
    BY <1>1, <1>5 DEF Frame, PythonTypeOK
<1>7. /\ open' \in Seq(Frame) /\ Len(open') = n
      /\ \A i \in 1..n : i # n => open'[i] = open[i]
    BY <1>4, <1>1, <1>5, <1>6, ExceptSeq
<1>8. /\ open'[n].test = top.test /\ open'[n].branch = "else" /\ open'[n].outer = top.outer
      /\ open'[n].visits = (top.outer /\ top.test # "true")
      /\ open'[n].env = env /\ open'[n].runs = runs
  <2>1. open'[n] = [top EXCEPT !.branch = "else", !.visits = top.outer /\ top.test # "true",
                               !.env = env, !.runs = runs]
      BY <1>4, <1>1, <1>5, <1>6, ExceptSeq
  <2> QED BY <1>5, <2>1 DEF Frame
<1>9. FrameInv(top)
    BY <1>1, <1>5, <1>3 DEF Sound
<1>10. PythonTypeOK'
    BY <1>4, <1>1, <1>5, <1>7 DEF PythonTypeOK, Frame
\* Where the checker did not look, the two branches have the same bindings.
<1>11. ~ top.outer => env' = env /\ runs' = {}
    BY <1>4, <1>9 DEF FrameInv
<1>12. ASSUME NEW i \in 1..n, i # n PROVE FrameInv(open[i])'
  <2>1. ~ open[i].visits => ~ top.outer
      BY <1>1, <1>5, <1>12, <1>3 DEF Sound, Nested
  <2>2. FrameInv(open[i])
      BY <1>1, <1>5 DEF Sound
  <2> QED BY <1>4, <1>7, <1>11, <1>12, <2>1, <2>2 DEF FrameInv, Covers
<1>13. FrameInv(open[n])'
  <2>1. Covers(env, runs) /\ \A r \in runs : r.readers \subseteq readers
      BY <1>1 DEF Sound
  <2>2. ~ open'[n].visits => env' = env /\ runs' = {}
    <3>1. CASE top.outer
        BY <1>4, <1>8, <3>1
    <3>2. CASE ~ top.outer
        BY <1>11, <3>2
    <3> QED BY <3>1, <3>2
  <2>3. ~ top.visits => runs = {}
      BY <1>9 DEF FrameInv
  <2>4. top.test = "false" \/ ~ top.outer => ~ top.visits
      BY <1>4, <1>9 DEF FrameInv
  <2> QED BY <1>4, <1>8, <2>1, <2>2, <2>3, <2>4 DEF FrameInv, Covers
<1>14. Nested'
    BY <1>1, <1>5, <1>7, <1>8, <1>3 DEF Sound, Nested
<1>15. Covers(env, runs)' /\ \A r \in runs' : r.readers \subseteq readers'
  <2>1. CASE top.test = "true"
      BY <1>4, <2>1 DEF Covers
  <2>2. CASE top.test = "false"
      BY <1>4, <1>9, <2>2 DEF FrameInv, Covers
  <2>3. CASE top.test = "dynamic"
      BY <1>4, <1>9, <2>3 DEF FrameInv, Covers
  <2> QED BY <1>5, <2>1, <2>2, <2>3 DEF Frame
<1>16. \A i \in 1..Len(open') : FrameInv(open[i])'
    BY <1>7, <1>12, <1>13
<1> QED BY <1>4, <1>1, <1>10, <1>14, <1>15, <1>16 DEF PythonInv, Sound

LEMMA EndIfSound ==
    ASSUME PythonInv, EndIf
    PROVE  PythonInv'
<1>1. Sound /\ PythonTypeOK
  <2>1. ~ hits
      BY Zenon DEF EndIf
  <2> QED BY <2>1, Zenon DEF PythonInv
<1>2. PICK n \in 1..Len(open) : n = Len(open)
    BY <1>1, VisitsOrNot DEF EndIf
<1>3. PICK top \in Frame : top = open[n]
    BY <1>1, <1>2, VisitsOrNot
<1>4. /\ top.branch = "else"
      /\ open' = SubSeq(open, 1, n - 1)
      /\ env' = IF top.outer /\ top.test = "dynamic"
                THEN [x \in Var |-> MergedBinding(top.env[x], env[x])]
                ELSE env
      /\ runs' = runs \cup top.runs
      /\ UNCHANGED <<readers, hits, opened>>
    BY <1>2, <1>3 DEF EndIf
<1>5. n \in 1..n /\ n \in Nat /\ open \in Seq(Frame) /\ n = Len(open)
    BY <1>1, <1>2, VisitsOrNot DEF PythonTypeOK
<1>6. /\ open' \in Seq(Frame) /\ Len(open') = n - 1
      /\ \A i \in 1..(n - 1) : open'[i] = open[i]
    BY <1>4, <1>5, SubSeqProperties
<1>7. FrameInv(top)
    BY <1>1, <1>5, <1>3 DEF Sound
<1>8. PythonTypeOK'
  <2>1. [x \in Var |-> MergedBinding(top.env[x], env[x])] \in [Var -> Binding]
    <3>1. ASSUME NEW x \in Var PROVE MergedBinding(top.env[x], env[x]) \in Binding
      <4>1. top.env[x] \in Binding /\ env[x] \in Binding
          BY <1>1 DEF PythonTypeOK, Frame
      <4> QED BY <4>1 DEF MergedBinding, Union, Binding
    <3> QED BY <3>1
  <2>2. top.runs \subseteq Run
      BY DEF Frame
  <2> QED BY <1>1, <1>4, <1>6, <2>1, <2>2 DEF PythonTypeOK
\* Where the checker did not look, there is no execution and nothing to merge.
<1>9. ~ top.outer => env' = env /\ runs' = {}
    BY <1>4, <1>7 DEF FrameInv
<1>10. \A r \in runs' : r.readers \subseteq readers'
    BY <1>1, <1>4, <1>7 DEF Sound, FrameInv
<1>11. ASSUME NEW i \in 1..Len(open') PROVE FrameInv(open[i])'
  <2>1. i \in 1..n /\ i < n /\ open'[i] = open[i]
      BY <1>5, <1>6
  <2>2. ~ open[i].visits => ~ top.outer
      BY <1>1, <1>3, <1>5, <2>1 DEF Sound, Nested
  <2>3. FrameInv(open[i])
      BY <1>1, <1>5, <2>1 DEF Sound
  <2> QED BY <1>4, <1>9, <2>1, <2>2, <2>3 DEF FrameInv, Covers
<1>12. Nested'
  <2> SUFFICES ASSUME NEW i \in 1..Len(open'), NEW j \in 1..Len(open'), i < j, ~ open'[i].visits
               PROVE  ~ open'[j].outer
      BY DEF Nested
  <2>1. i \in 1..n /\ j \in 1..n /\ open'[i] = open[i] /\ open'[j] = open[j]
      BY <1>5, <1>6
  <2> QED BY <1>1, <1>5, <2>1 DEF Sound, Nested
<1>13. Covers(env, runs)'
  <2>1. Covers(env, runs) /\ Covers(top.env, top.runs)
      BY <1>1, <1>7 DEF Sound, FrameInv
  <2>2. CASE top.outer /\ top.test = "dynamic"
    <3>1. \A x \in Var : top.env[x].values \subseteq env'[x].values /\ env[x].values \subseteq env'[x].values
        BY <1>4, <2>2 DEF MergedBinding, Union
    <3> QED BY <1>4, <2>1, <3>1 DEF Covers
  <2>3. CASE ~ top.outer
      BY <1>9, <2>3 DEF Covers
  <2>4. CASE top.outer /\ top.test = "false"
    <3>1. top.runs = {} /\ env' = env
        BY <1>4, <1>7, <2>4 DEF FrameInv
    <3> QED BY <1>4, <2>1, <3>1 DEF Covers
  <2>5. CASE top.outer /\ top.test = "true"
    <3>1. runs = {} /\ top.env = env /\ env' = env
        BY <1>4, <1>7, <2>5 DEF FrameInv
    <3> QED BY <1>4, <2>1, <3>1 DEF Covers
  <2> QED BY <2>2, <2>3, <2>4, <2>5 DEF Frame
<1> QED BY <1>1, <1>4, <1>8, <1>10, <1>11, <1>12, <1>13 DEF PythonInv, Sound

-----------------------------------------------------------------------------
(* The results.                                                            *)

LEMMA VisitSound ==
    ASSUME PythonInv, Visit
    PROVE  PythonInv'
BY ImportSound, AssignSound, ReadSound, IfSound, ElseSound, EndIfSound, Zenon DEF Visit

LEMMA PythonStutters ==
    ASSUME PythonInv, UNCHANGED pythonVars
    PROVE  PythonInv'
BY DEF PythonInv, PythonTypeOK, Sound, Nested, FrameInv, Covers, pythonVars, checkerVars

\* When the checker and the program are done with, the next one starts.
LEMMA ForgetSound ==
    ASSUME Forget, opened' = {}
    PROVE  PythonInv'
<1>1. open' = <<>> /\ open' \in Seq(Frame) /\ Len(open') = 0
    BY EmptySeq DEF Forget
<1>2. PythonTypeOK'
  <2>1. Unknown \in Binding
      BY DEF Unknown, Binding
  <2>2. Unset \in Variable
      BY DEF Variable
  <2>3. [vals |-> [x \in Var |-> Unset], readers |-> Builtin] \in Run
      BY <2>2, PythonAssumption DEF Run
  <2> QED BY <1>1, <2>1, <2>3, PythonAssumption DEF Forget, PythonTypeOK
<1>3. Sound'
    BY <1>1 DEF Forget, Sound, Nested, Covers, Unset
<1> QED BY <1>2, <1>3 DEF PythonInv

\* What a variable is in an execution, the checker knows it may be.
LEMMA BindingsAreCovered == PythonInv => BindingsCover
BY DEF PythonInv, Sound, Covers, BindingsCover

\* While the checker has found nothing, what any execution of the program has opened
\* is not protected, and is not a sensitive file by any other name.
THEOREM ProgramReadsProtected ==
    ASSUME PythonInv, ~ hits, NEW p \in opened
    PROVE  ~ Sensitive(Real[p])
<1>1. p \in Path /\ ~ PathProtected(p)
    BY DEF PythonInv, PythonTypeOK, Sound
<1>2. Real[p] \in ReadFrom(p)
    BY DEF ReadFrom
<1> QED BY <1>1, <1>2, ReadsProtected


-----------------------------------------------------------------------------
(* A scan that finds nothing has looked everywhere.                        *)

LEMMA FirstOfNothing ==
    ASSUME NEW S \in SUBSET Nat, FirstOf(S) = {}
    PROVE  S = {}
<1> SUFFICES ASSUME S # {} PROVE FALSE
    OBVIOUS
<1>1. PICK i \in S : \A j \in S : <<j, i>> \notin OpToRel(<, Nat)
    BY NatLessThanWellFounded, WFMin
<1>2. \A j \in S : ~ (j < i)
    BY <1>1 DEF OpToRel
<1>3. i \in FirstOf(S)
    BY <1>2 DEF FirstOf
<1> QED BY <1>3

Clean(r, reg) ==
    /\ \A s \in Secrets(reg) :
         /\ \A i \in DOMAIN r : ~ Holds(r[i].text, s)
         /\ \A i, j \in DOMAIN r : i # j => Half(s) \notin r[i].text \cap r[j].text
    /\ \A i \in DOMAIN r : r[i].field # "number" =>
         ~ KeyMaterial(r[i].text) /\ ~ ScanFails(r[i].text)

LEMMA NoFindingIsClean ==
    ASSUME NEW r, NEW reg, DOMAIN r \subseteq Nat, FullyClean(r, reg)
    PROVE  Clean(r, reg)
<1>1. Hits(r, reg) = {} /\ Findings(r, reg) = {}
    BY DEF FullyClean
<1>2. \A s \in Secrets(reg) :
         /\ \A i \in DOMAIN r : ~ Holds(r[i].text, s)
         /\ \A i, j \in DOMAIN r : i # j => Half(s) \notin r[i].text \cap r[j].text
    BY <1>1 DEF Hits
<1>3. KeyFinding(r) = {}
    BY <1>1 DEF Findings
<1> DEFINE S == {i \in DOMAIN r : /\ r[i].field # "number"
                                  /\ \/ KeyMaterial(r[i].text)
                                     \/ ScanFails(r[i].text)}
<1>4. S = {}
  <2>1. S \in SUBSET Nat /\ FirstOf(S) = {}
      BY <1>3 DEF KeyFinding
  <2> HIDE DEF S
  <2> QED BY <2>1, FirstOfNothing
<1> QED BY <1>2, <1>4 DEF Clean

-----------------------------------------------------------------------------
(* What leaves.                                                            *)

\* The result of a tool is one text.
Result(t) == <<[msg |-> 0, role |-> "tool", field |-> "content", text |-> t]>>

Registered == IF Loadable(version) THEN Secrets(Merged(version)) ELSE {}

\* What has been registered ever since the entry began is in the file until the
\* registry is read and in that registry afterwards; what has passed is clean.
LeaveInv ==
    /\ DOMAIN request \subseteq Nat
    /\ stage = "result" /\ phase \in {"entered", "snapshot"} =>
         \E t \in Results : request = Result(t)
    /\ phase = "keyless" => stage # "result"
    /\ phase \in {"entered", "keyless"} => since \subseteq Registered
    /\ phase \in {"snapshot", "recovering", "passed", "sent", "returned"} =>
         since \subseteq Secrets(registry)
    /\ phase \in {"passed", "sent", "returned"} => Clean(request, registry)

LEMMA LeaveInvInit == Init => LeaveInv
BY DEF Init, LeaveInv

LEMMA BlockKeeps ==
    ASSUME LeaveInv, NEW c, Block(c)
    PROVE  LeaveInv'
BY DEF LeaveInv, Block

LEMMA BeginKeeps ==
    ASSUME LeaveInv, NEW st, NEW r, Begin(st, r), DOMAIN r \subseteq Nat,
           st = "result" => \E t \in Results : r = Result(t)
    PROVE  LeaveInv'
BY DEF LeaveInv, Begin, Registered, Merged, Loadable, Secrets, Consistent

\* One preparation, step by step.
LEMMA PrepareKeeps ==
    ASSUME LeaveInv, Prepare
    PROVE  LeaveInv'
<1>1. CASE RedactPrivateKeys
  <2>1. DOMAIN request' = DOMAIN request
      BY <1>1 DEF RedactPrivateKeys, Keyless
  <2> QED BY <1>1, <2>1 DEF RedactPrivateKeys, LeaveInv, Go, At, history, Registered, Merged,
                            Loadable, Secrets, Consistent
<1>2. CASE PrivateKeysRefused
    BY <1>2, BlockKeeps DEF PrivateKeysRefused
<1>3. CASE TakeSnapshot
  <2>1. since \subseteq Secrets(Merged(version))
      BY <1>3 DEF TakeSnapshot, NeedsRegistry, LeaveInv, Registered, At
  <2>2. stage' = "result" => \E t \in Results : request' = Result(t)
      BY <1>3 DEF TakeSnapshot, NeedsRegistry, LeaveInv, At, Go
  <2> QED BY <1>3, <2>1, <2>2 DEF TakeSnapshot, LeaveInv, Go, history, Secrets
<1>4. CASE SnapshotFails
    BY <1>4, BlockKeeps DEF SnapshotFails
<1>5. CASE VariantsFail
    BY <1>5, BlockKeeps DEF VariantsFail
<1>6. CASE RedactRegistered
    BY <1>6 DEF RedactRegistered, LeaveInv, Rename, Redacted, Go, At, history, Secrets
<1>7. CASE RedactionRefused
    BY <1>7, BlockKeeps DEF RedactionRefused
<1>8. CASE Quarantine
    BY <1>8 DEF Quarantine, LeaveInv, With, Go, At, history, Secrets
<1>9. CASE QuarantineRefused
    BY <1>9, BlockKeeps DEF QuarantineRefused
<1>10. CASE BreakAggregate
    BY <1>10 DEF BreakAggregate, LeaveInv, With, Go, At, history, Secrets
<1>11. CASE AggregateRefused
    BY <1>11, BlockKeeps DEF AggregateRefused
<1>12. CASE BudgetSpent
    BY <1>12, BlockKeeps DEF BudgetSpent
<1>13. CASE Pass
  <2>1. Clean(request, registry)
      BY <1>13, NoFindingIsClean DEF Pass, LeaveInv
  <2> QED BY <1>13, <2>1 DEF Pass, LeaveInv, Go, At, Clean, Secrets
<1> QED BY <1>1, <1>2, <1>3, <1>4, <1>5, <1>6, <1>7, <1>8, <1>9, <1>10, <1>11, <1>12, <1>13
        DEF Prepare

\* A result that has come back leaves no residue, in its only text.
LEMMA GuardResultKeeps ==
    ASSUME LeaveInv, GuardResult
    PROVE  LeaveInv'
<1>1. PICK t \in Results : request = Result(t)
    BY DEF GuardResult, LeaveInv, At
<1> DEFINE g == Guarded(request[1].text)
<1>2. CASE Residue(g) /\ Block("RESULT_GUARD_FAIL")
    BY <1>2, BlockKeeps
<1>3. CASE /\ ~ Residue(g)
           /\ request' = With(request, 1, g)
           /\ Go("returned")
           /\ UNCHANGED <<registry, rounds, history>>
  <2>1. request' = Result(g)
      BY <1>1, <1>3 DEF With, Result
  <2>2. DOMAIN request' = {1} /\ request'[1].text = g
      BY <2>1 DEF Result
  <2>3. Clean(request, registry)'
      BY <1>3, <2>2 DEF Residue, Clean, Secrets
  <2> QED BY <1>3, <2>2, <2>3 DEF LeaveInv, GuardResult, Go, At, history, Secrets
<1> QED BY <1>2, <1>3 DEF GuardResult

LEMMA ReceiveKeeps ==
    ASSUME LeaveInv, Receive
    PROVE  LeaveInv'
<1>1. PICK t \in Results : Begin("result", Result(t))
    BY DEF Receive, Result
<1>2. DOMAIN Result(t) \subseteq Nat
    BY DEF Result
<1> QED BY <1>1, <1>2, BeginKeeps

LEMMA ProviderKeeps ==
    ASSUME LeaveInv, Provider
    PROVE  LeaveInv'
<1>1. CASE Call
    BY <1>1, BeginKeeps, EgressAssumption DEF Call
<1>2. CASE Execute
    BY <1>2, BeginKeeps DEF Execute, LeaveInv
<1>3. CASE ExecuteEdited
  <2>1. PICK i \in DOMAIN request, t \in Edits : Begin("execution", With(request, i, t))
      BY <1>3 DEF ExecuteEdited
  <2>2. DOMAIN With(request, i, t) \subseteq Nat
      BY DEF With, LeaveInv
  <2> QED BY <2>1, <2>2, BeginKeeps
<1>4. CASE AnswerBlock
    BY <1>4 DEF AnswerBlock, LeaveInv, At
<1>5. CASE Send
    BY <1>5 DEF Send, LeaveInv, Go, At, history, Clean, Secrets
<1>6. CASE MissingNext
    BY <1>6 DEF MissingNext, LeaveInv, At
<1>7. CASE Rewrite
  <2>1. since' \subseteq since /\ since' \subseteq Registered'
      BY <1>7 DEF Rewrite, Registered, Loadable, Merged, Secrets, Consistent
  <2> QED BY <1>7, <2>1 DEF Rewrite, LeaveInv, callVars, Clean, Secrets
<1> QED BY <1>1, <1>2, <1>3, <1>4, <1>5, <1>6, <1>7, PrepareKeeps, GuardResultKeeps DEF Provider

LEMMA ToolKeeps ==
    ASSUME LeaveInv, Tool
    PROVE  LeaveInv'
<1>1. CASE Receive
    BY <1>1, ReceiveKeeps
<1>2. CASE Withhold
    BY <1>2 DEF Withhold, LeaveInv
<1>3. CASE ProgramReturns
    BY <1>3 DEF ProgramReturns, LeaveInv
<1>4. CASE LookOn
    BY <1>4 DEF LookOn, LeaveInv, callVars, history, Registered, Loadable, Merged, Secrets, Consistent, Clean
<1> QED BY <1>1, <1>2, <1>3, <1>4
        DEF Tool, ToolReturns, ToolWithheld, ProgramPasses, ProgramWithheld

LEMMA LeaveInvAlways == Spec => []LeaveInv
<1>1. LeaveInv /\ [Next]_vars => LeaveInv'
  <2>1. CASE UNCHANGED vars
      BY <2>1 DEF vars, egressVars, callVars, history, LeaveInv, Registered, Loadable, Merged, Secrets,
                  Consistent, Clean
  <2> QED BY <2>1, ProviderKeeps, ToolKeeps DEF Next
<1> QED BY <1>1, LeaveInvInit, PTL DEF Spec

\* Nothing that has been registered ever since the last entry of the guard began, and
\* no private key, is in what the provider or the model receives, however the host
\* edits the request and whenever the file is rewritten (on_llm_execution,
\* guard_tool_result).
THEOREM NothingLeaves == Spec => []NothingRegisteredLeaves
<1>1. LeaveInv => NothingRegisteredLeaves
    BY DEF LeaveInv, NothingRegisteredLeaves, Clean
<1> QED BY <1>1, LeaveInvAlways, PTL

-----------------------------------------------------------------------------
(* What comes in.                                                          *)

\* A call that is let through looks into no sensitive file.
LEMMA CallIsJudged ==
    ASSUME NEW c \in Calls, ~ Refused(c)
    PROVE  ~ FromSensitive(Looked(c))
<1> SUFFICES ASSUME NEW f \in Looked(c), Sensitive(f) PROVE FALSE
    BY DEF FromSensitive
<1>1. CASE c.tool = "read"
  <2>1. PICK p \in c.paths : f \in ReadFrom(p)
      BY <1>1 DEF Looked
  <2> QED BY <1>1, <2>1, ReadsProtected, ToolGuardAssumption DEF Refused
<1>2. CASE c.tool = "search"
  <2>1. PICK p \in SearchRoots(c) : f \in SearchedFrom(p)
      BY <1>2 DEF Looked
  <2>2. p \in Path
      BY <1>2, ToolGuardAssumption DEF SearchRoots
  <2> QED BY <1>2, <2>1, <2>2, SearchesProtected DEF Refused
<1>3. CASE c.tool = "terminal"
  <2>1. PICK m \in c.mentions : m.how = "read" /\ f \in ReadFrom(m.path)
      BY <1>3 DEF Looked
  <2>2. m.path \in Mentioned(c) /\ m.path \in Path
      BY <1>3, <2>1, ToolGuardAssumption DEF Mentioned
  <2> QED BY <1>3, <2>1, <2>2, ReadsProtected DEF Refused
<1>4. CASE c.tool = "other"
    BY <1>4 DEF Looked
<1> QED BY <1>1, <1>2, <1>3, <1>4, ToolGuardAssumption

GuardInv == PythonInv /\ ~ leaked

LEMMA GuardKeeps ==
    ASSUME GuardInv, [Next]_vars
    PROVE  GuardInv'
<1>1. CASE UNCHANGED guardVars
    BY <1>1, PythonStutters DEF GuardInv, guardVars
<1>2. ASSUME NEW c \in Calls, NEW passes \in BOOLEAN, CallVerdict(c, passes) PROVE GuardInv'
    BY <1>2, CallIsJudged, PythonStutters DEF GuardInv, CallVerdict
<1>3. CASE LookAtProgram
    BY <1>3, PythonStutters DEF GuardInv, LookAtProgram
<1>4. CASE VisitStatement
    BY <1>4, VisitSound DEF GuardInv, VisitStatement
<1>5. ASSUME NEW passes \in BOOLEAN, ProgramVerdict(passes) PROVE GuardInv'
  <2>1. ~ leaked'
    <3>1. passes => ~ FromSensitive({Real[p] : p \in opened})
        BY <1>5, ProgramReadsProtected DEF ProgramVerdict, FromSensitive, GuardInv
    <3> QED BY <1>5, <3>1 DEF ProgramVerdict
  <2> QED BY <1>5, <2>1, ForgetSound DEF GuardInv, ProgramVerdict
<1> QED BY <1>1, <1>2, <1>3, <1>4, <1>5
        DEF Next, vars, Tool, ToolReturns, ToolWithheld, ProgramReturns, LookOn, ProgramPasses, ProgramWithheld

LEMMA GuardInvAlways == Spec => []GuardInv
<1>1. Init => GuardInv
    BY PythonInvInit DEF Init, GuardInit, GuardInv
<1> QED BY <1>1, GuardKeeps, PTL DEF Spec

\* The result of a call that plainly reads a sensitive file, by whatever spelling or
\* link, by a search above it or in an execution of a program, never comes to the
\* model (on_transform_tool_result).
THEOREM ProtectedWithheld == Spec => []ProtectedFileWithheld
<1>1. GuardInv => ProtectedFileWithheld
    BY DEF GuardInv, ProtectedFileWithheld
<1> QED BY <1>1, GuardInvAlways, PTL

\* Whatever a variable is in an execution that comes to a statement, the checker of
\* programs knows it may be (_bind_name, visit_If, _merge_envs).
THEOREM BindingsAlwaysCover == Spec => []BindingsCover
<1>1. GuardInv => BindingsCover
    BY BindingsAreCovered DEF GuardInv
<1> QED BY <1>1, GuardInvAlways, PTL

-----------------------------------------------------------------------------
(* The skeleton of a request.                                              *)

IsLeaf(l) == l.msg \in Nat /\ l = [msg |-> l.msg, role |-> l.role, field |-> l.field, text |-> l.text]

Fcn(f, S) == f = [i \in S |-> f[i]]

Sane(r) ==
    /\ IsFiniteSet(DOMAIN r) /\ DOMAIN r \subseteq Nat
    /\ Fcn(r, DOMAIN r)
    /\ \A i \in DOMAIN r : IsLeaf(r[i])

SameSkeleton(r, o) ==
    /\ DOMAIN r = DOMAIN o
    /\ \A i \in DOMAIN r : r[i].msg = o[i].msg /\ r[i].role = o[i].role /\ r[i].field = o[i].field

Retexted(l, t) == [l EXCEPT !.text = t]

LEMMA TextOfLeaf ==
    ASSUME NEW l, IsLeaf(l), NEW t, NEW new, new = Retexted(l, t)
    PROVE  /\ IsLeaf(new) /\ new.text = t
           /\ new.msg = l.msg /\ new.role = l.role /\ new.field = l.field
<1> DEFINE k == [msg |-> l.msg, role |-> l.role, field |-> l.field, text |-> l.text]
<1>1. l = k
    BY DEF IsLeaf
<1>2. [k EXCEPT !.text = t] = [msg |-> l.msg, role |-> l.role, field |-> l.field, text |-> t]
    OBVIOUS
<1> HIDE DEF k
<1> QED BY <1>1, <1>2 DEF IsLeaf, Retexted

\* Every step on a copy replaces texts and nothing else.
LEMMA TextsReplaced ==
    ASSUME NEW r, Sane(r), NEW t, NEW new, Fcn(new, DOMAIN r),
           \A i \in DOMAIN r : \/ new[i] = Retexted(r[i], t[i])
                               \/ new[i] = r[i] /\ t[i] = r[i].text
    PROVE  Sane(new) /\ SameSkeleton(new, r) /\ \A i \in DOMAIN r : new[i].text = t[i]
<1>1. DOMAIN new = DOMAIN r
    BY DEF Fcn
<1>2. ASSUME NEW i \in DOMAIN r
      PROVE  /\ IsLeaf(new[i]) /\ new[i].text = t[i]
             /\ new[i].msg = r[i].msg /\ new[i].role = r[i].role /\ new[i].field = r[i].field
  <2>1. IsLeaf(r[i])
      BY DEF Sane
  <2>2. CASE new[i] = r[i] /\ t[i] = r[i].text
      BY <2>1, <2>2
  <2>3. CASE new[i] = Retexted(r[i], t[i])
      BY <2>1, <2>3, TextOfLeaf
  <2> QED BY <2>2, <2>3
<1>3. Fcn(new, DOMAIN new)
    BY <1>1
<1> QED BY <1>1, <1>2, <1>3 DEF Sane, SameSkeleton

LEMMA KeylessTexts ==
    ASSUME NEW r, Sane(r)
    PROVE  /\ Sane(Keyless(r)) /\ SameSkeleton(Keyless(r), r)
           /\ \A i \in DOMAIN r : Keyless(r)[i].text = KeylessText(r[i])
<1> DEFINE t == [i \in DOMAIN r |-> KeylessText(r[i])]
           new == Keyless(r)
<1>1. new = [i \in DOMAIN r |-> [r[i] EXCEPT !.text = KeylessText(r[i])]]
    BY DEF Keyless
<1>2. \A i \in DOMAIN r : new[i] = Retexted(r[i], t[i])
    BY <1>1 DEF Retexted
<1>3. Fcn(new, DOMAIN r)
    BY <1>1 DEF Fcn
<1>4. \A i \in DOMAIN r : t[i] = KeylessText(r[i])
    OBVIOUS
<1> HIDE DEF t, new
<1>5. Sane(new) /\ SameSkeleton(new, r) /\ \A i \in DOMAIN r : new[i].text = t[i]
    BY <1>2, <1>3, TextsReplaced
<1> QED BY <1>4, <1>5 DEF new

RedactedOf(l, reg) == IF l.field = "number" THEN l.text ELSE RedactedText(l.text, reg)

LEMMA RedactedTexts ==
    ASSUME NEW r, Sane(r), NEW reg
    PROVE  /\ Sane(Redacted(r, reg)) /\ SameSkeleton(Redacted(r, reg), r)
           /\ \A i \in DOMAIN r : Redacted(r, reg)[i].text = RedactedOf(r[i], reg)
<1> DEFINE t == [i \in DOMAIN r |-> RedactedOf(r[i], reg)]
           new == Redacted(r, reg)
<1>1. new = [i \in DOMAIN r |->
               IF r[i].field = "number" THEN r[i]
               ELSE [r[i] EXCEPT !.text = RedactedText(r[i].text, reg)]]
    BY DEF Redacted
<1>2. \A i \in DOMAIN r : \/ new[i] = Retexted(r[i], t[i])
                          \/ new[i] = r[i] /\ t[i] = r[i].text
    BY <1>1 DEF RedactedOf, Retexted
<1>3. Fcn(new, DOMAIN r)
    BY <1>1 DEF Fcn
<1>4. \A i \in DOMAIN r : t[i] = RedactedOf(r[i], reg)
    OBVIOUS
<1> HIDE DEF t, new
<1>5. Sane(new) /\ SameSkeleton(new, r) /\ \A i \in DOMAIN r : new[i].text = t[i]
    BY <1>2, <1>3, TextsReplaced
<1> QED BY <1>4, <1>5 DEF new

LEMMA RenameTexts ==
    ASSUME NEW r, Sane(r)
    PROVE  /\ Sane(Rename(r)) /\ SameSkeleton(Rename(r), r)
           /\ \A i \in DOMAIN r : Rename(r)[i].text =
                IF i \in Collisions(r) THEN {Renamed(i)} ELSE r[i].text
<1> DEFINE t == [i \in DOMAIN r |-> IF i \in Collisions(r) THEN {Renamed(i)} ELSE r[i].text]
           new == Rename(r)
<1>1. new = [i \in DOMAIN r |->
               IF i \in Collisions(r) THEN [r[i] EXCEPT !.text = {Renamed(i)}] ELSE r[i]]
    BY DEF Rename
<1>2. \A i \in DOMAIN r : \/ new[i] = Retexted(r[i], t[i])
                          \/ new[i] = r[i] /\ t[i] = r[i].text
    BY <1>1 DEF Retexted
<1>3. Fcn(new, DOMAIN r)
    BY <1>1 DEF Fcn
<1>4. \A i \in DOMAIN r : t[i] = IF i \in Collisions(r) THEN {Renamed(i)} ELSE r[i].text
    OBVIOUS
<1> HIDE DEF t, new
<1>5. Sane(new) /\ SameSkeleton(new, r) /\ \A i \in DOMAIN r : new[i].text = t[i]
    BY <1>2, <1>3, TextsReplaced
<1> QED BY <1>4, <1>5 DEF new

LEMMA WithText ==
    ASSUME NEW r, Sane(r), NEW i \in DOMAIN r, NEW x
    PROVE  /\ Sane(With(r, i, x)) /\ SameSkeleton(With(r, i, x), r)
           /\ With(r, i, x)[i].text = x
           /\ \A j \in DOMAIN r \ {i} : With(r, i, x)[j].text = r[j].text
<1> DEFINE t == [j \in DOMAIN r |-> IF j = i THEN x ELSE r[j].text]
           new == With(r, i, x)
<1>1. r = [j \in DOMAIN r |-> r[j]]
    BY DEF Sane, Fcn
<1>2. new = [j \in DOMAIN r |-> IF j = i THEN [r[j] EXCEPT !.text = x] ELSE r[j]]
    BY <1>1 DEF With
<1>3. \A j \in DOMAIN r : \/ new[j] = Retexted(r[j], t[j])
                          \/ new[j] = r[j] /\ t[j] = r[j].text
    BY <1>2 DEF Retexted
<1>4. Fcn(new, DOMAIN r)
    BY <1>2 DEF Fcn
<1>5. \A j \in DOMAIN r : t[j] = IF j = i THEN x ELSE r[j].text
    OBVIOUS
<1> HIDE DEF t, new
<1>6. Sane(new) /\ SameSkeleton(new, r) /\ \A j \in DOMAIN r : new[j].text = t[j]
    BY <1>3, <1>4, TextsReplaced
<1> QED BY <1>5, <1>6 DEF new

\* A placeholder is where the guard put it, and nowhere else.
LabelsOwn(r) == \A i \in DOMAIN r : r[i].field = "label" =>
                  \A m \in r[i].text : m.kind = "renamed" => m = Renamed(i)

\* A text replaced in a leaf that is no key.
LEMMA WithOwns ==
    ASSUME NEW r, Sane(r), NEW i \in DOMAIN r, NEW x, r[i].field # "label", LabelsOwn(r)
    PROVE  LabelsOwn(With(r, i, x)) /\ Collisions(With(r, i, x)) \subseteq Collisions(r)
<1> DEFINE new == With(r, i, x)
<1>1. SameSkeleton(new, r) /\ \A j \in DOMAIN r \ {i} : new[j].text = r[j].text
    BY WithText
<1> HIDE DEF new
<1>2. LabelsOwn(new)
    BY <1>1 DEF LabelsOwn, SameSkeleton
<1>3. ASSUME NEW j, NEW k, j \in DOMAIN r, k \in DOMAIN r, Collide(new, j, k) PROVE Collide(r, j, k)
    BY <1>1, <1>3 DEF Collide, SameSkeleton
<1>4. Collisions(new) \subseteq Collisions(r)
    BY <1>1, <1>3 DEF Collisions, SameSkeleton
<1> QED BY <1>2, <1>4 DEF new

\* A request of the host, and the one text of a result.
LEMMA RequestsSane == \A r \in Requests : Sane(r) /\ LabelsOwn(r)
<1> SUFFICES ASSUME NEW r \in Requests PROVE Sane(r) /\ LabelsOwn(r)
    OBVIOUS
<1>0. \A m \in Material : m.kind # "renamed"
    BY DEF Material, Plain, Half, Seam, Pem, Boundary, Opaque, Token, Removed, Withheld, Quarantined
<1>1. r \in Seq(Leaf)
    BY EgressAssumption
<1>2. DOMAIN r = 1..Len(r) /\ Len(r) \in Nat
    BY <1>1
<1>3. IsFiniteSet(1..Len(r))
    BY <1>2, FS_Interval
<1>4. \A i \in DOMAIN r : r[i] \in Leaf
    BY <1>1
<1>5. Fcn(r, DOMAIN r)
    BY <1>1 DEF Fcn
<1>6. LabelsOwn(r)
    BY <1>0, <1>4 DEF LabelsOwn, Leaf
<1> QED BY <1>2, <1>3, <1>4, <1>5, <1>6 DEF Sane, IsLeaf, Leaf

LEMMA ResultSane == \A t : Sane(Result(t)) /\ LabelsOwn(Result(t))
<1> SUFFICES ASSUME NEW t PROVE Sane(Result(t)) /\ LabelsOwn(Result(t))
    OBVIOUS
<1>1. DOMAIN Result(t) = 1..1 /\ DOMAIN Result(t) = {1} /\ Fcn(Result(t), {1})
    BY DEF Result, Fcn
<1>2. IsFiniteSet(DOMAIN Result(t))
  <2>1. IsFiniteSet({1})
      BY FS_Singleton
  <2> QED BY <1>1, <2>1
<1>3. Result(t)[1] = [msg |-> 0, role |-> "tool", field |-> "content", text |-> t]
    BY DEF Result
<1>4. IsLeaf(Result(t)[1])
    BY <1>3 DEF IsLeaf
<1> QED BY <1>1, <1>2, <1>3, <1>4 DEF Sane, LabelsOwn

-----------------------------------------------------------------------------
(* What a step makes of the request, in which entry.                       *)

\* The copy has the leaves of the request as it entered, and as other middleware left
\* it; only their texts differ.
SkeletonInv ==
    /\ Sane(request) /\ Sane(entered) /\ Sane(original)
    /\ SameSkeleton(request, entered) /\ SameSkeleton(request, original)

LEMMA SkeletonComposes ==
    ASSUME NEW r, NEW o, NEW q, SameSkeleton(r, o), SameSkeleton(o, q)
    PROVE  SameSkeleton(r, q)
BY DEF SameSkeleton

\* The steps that change the copy.
Rewrites ==
    \/ request' = Keyless(request)
    \/ request' = Rename(Redacted(request, registry))
    \/ \E i \in DOMAIN request : \E t : request' = With(request, i, t)

LEMMA RewritesKeepSkeleton ==
    ASSUME Sane(request), Rewrites
    PROVE  Sane(request') /\ SameSkeleton(request', request)
<1>1. CASE request' = Keyless(request)
    BY <1>1, KeylessTexts
<1>2. CASE request' = Rename(Redacted(request, registry))
    BY <1>2, RedactedTexts, RenameTexts, SkeletonComposes
<1>3. CASE \E i \in DOMAIN request : \E t : request' = With(request, i, t)
    BY <1>3, WithText
<1> QED BY <1>1, <1>2, <1>3 DEF Rewrites

LEMMA FindingsAreLeaves ==
    ASSUME NEW r, NEW reg
    PROVE  Findings(r, reg) \subseteq DOMAIN r /\ AggregateBranch(r, reg) \subseteq DOMAIN r
<1>1. KeyFinding(r) \subseteq DOMAIN r
    BY DEF KeyFinding, FirstOf
<1>2. SecretFinding(r, reg) \subseteq DOMAIN r
    BY DEF SecretFinding, FirstOf
<1>3. Findings(r, reg) \subseteq DOMAIN r
    BY <1>1, <1>2 DEF Findings
<1>4. \A f : Branches(r, f) \subseteq DOMAIN r
    BY DEF Branches
<1>5. AggregateBranch(r, reg) \subseteq DOMAIN r
    BY <1>4 DEF AggregateBranch, FirstOf
<1> QED BY <1>3, <1>5

\* A step leaves the three requests alone, changes the copy in one of five ways, or
\* begins an entry.
Begins(r) == /\ request' = r /\ entered' = r
             /\ original' = r \/ (r = request /\ original' = original)

LEMMA StepKinds ==
    ASSUME SkeletonInv, [Next]_vars
    PROVE  \/ UNCHANGED <<request, entered, original>>
           \/ /\ UNCHANGED <<entered, original>>
              /\ RedactPrivateKeys \/ RedactRegistered \/ Quarantine \/ BreakAggregate \/ GuardResult
           \/ /\ phase' = "entered"
              /\ \E r : Begins(r) /\ Sane(r) /\ (LabelsOwn(request) => LabelsOwn(r))
<1>1. ASSUME NEW c, Block(c) PROVE UNCHANGED <<request, entered, original>>
    BY <1>1 DEF Block, history
<1>2. CASE Prepare
  <2>1. CASE \/ PrivateKeysRefused \/ SnapshotFails \/ VariantsFail \/ RedactionRefused
             \/ QuarantineRefused \/ AggregateRefused \/ BudgetSpent
      BY <1>1, <2>1 DEF PrivateKeysRefused, SnapshotFails, VariantsFail, RedactionRefused,
                        QuarantineRefused, AggregateRefused, BudgetSpent
  <2>2. CASE RedactPrivateKeys \/ RedactRegistered \/ Quarantine \/ BreakAggregate
      BY <2>2 DEF RedactPrivateKeys, RedactRegistered, Quarantine, BreakAggregate, history
  <2>3. CASE TakeSnapshot \/ Pass
      BY <2>3 DEF TakeSnapshot, Pass, history
  <2> QED BY <1>2, <2>1, <2>2, <2>3 DEF Prepare
<1>3. CASE Receive
    BY <1>3, ResultSane DEF Receive, Begin, Begins, Result
<1>4. CASE Call
    BY <1>4, RequestsSane DEF Call, Begin, Begins
<1>5. CASE Execute
    BY <1>5 DEF Execute, Begin, Begins, SkeletonInv
<1>6. CASE ExecuteEdited
  <2>1. PICK i \in DOMAIN request, t \in Edits :
          /\ request[i].field = "content"
          /\ Begin("execution", With(request, i, t)) /\ original' = With(request, i, t)
      BY <1>6 DEF ExecuteEdited
  <2>2. Sane(With(request, i, t))
      BY WithText DEF SkeletonInv
  <2>3. request[i].field = "content"
      BY <2>1
  <2>4. LabelsOwn(request) => LabelsOwn(With(request, i, t))
      BY <2>3, WithOwns DEF SkeletonInv
  <2> QED BY <2>1, <2>2, <2>4 DEF Begin, Begins
<1>7. CASE AnswerBlock \/ Send \/ MissingNext \/ Rewrite
    BY <1>7 DEF AnswerBlock, Send, MissingNext, Rewrite, history, callVars
<1>8. CASE GuardResult
    BY <1>1, <1>8 DEF GuardResult, history
<1>9. CASE Tool
    BY <1>3, <1>9 DEF Tool, ToolReturns, ToolWithheld, ProgramReturns, LookOn, ProgramPasses,
                      ProgramWithheld, Withhold, history, callVars
<1>10. CASE UNCHANGED vars
    BY <1>10 DEF vars, egressVars, callVars, history
<1> QED BY <1>2, <1>4, <1>5, <1>6, <1>7, <1>8, <1>9, <1>10 DEF Next, Provider

LEMMA SkeletonInvNext ==
    ASSUME SkeletonInv, LeaveInv, [Next]_vars
    PROVE  SkeletonInv'
<1>1. CASE UNCHANGED <<request, entered, original>>
    BY <1>1 DEF SkeletonInv
<1>2. CASE /\ UNCHANGED <<entered, original>>
           /\ RedactPrivateKeys \/ RedactRegistered \/ Quarantine \/ BreakAggregate \/ GuardResult
  <2>1. Rewrites \/ request' = request
    <3>1. CASE RedactPrivateKeys \/ RedactRegistered
        BY <3>1 DEF RedactPrivateKeys, RedactRegistered, Rewrites
    <3>2. CASE Quarantine \/ BreakAggregate
        BY <3>2, FindingsAreLeaves DEF Quarantine, BreakAggregate, Rewrites
    <3>3. CASE GuardResult
      <4>1. 1 \in DOMAIN request
          BY <3>3 DEF GuardResult, At, LeaveInv, Result
      <4> QED BY <3>3, <4>1 DEF GuardResult, Rewrites, Block
    <3> QED BY <1>2, <3>1, <3>2, <3>3
  <2>2. CASE Rewrites
    <3>1. Sane(request') /\ SameSkeleton(request', request)
        BY <2>2, RewritesKeepSkeleton DEF SkeletonInv
    <3>2. SameSkeleton(request', entered) /\ SameSkeleton(request', original)
        BY <3>1, SkeletonComposes DEF SkeletonInv
    <3> QED BY <1>2, <3>1, <3>2 DEF SkeletonInv
  <2> QED BY <1>2, <2>1, <2>2 DEF SkeletonInv
<1>3. ASSUME NEW r, Begins(r), Sane(r) PROVE SkeletonInv'
  <2>1. SameSkeleton(r, r)
      BY DEF SameSkeleton
  <2> QED BY <1>3, <2>1 DEF Begins, SkeletonInv
<1> QED BY <1>1, <1>2, <1>3, StepKinds

LEMMA SkeletonInvInit == Init => SkeletonInv
<1> SUFFICES ASSUME Init PROVE SkeletonInv
    OBVIOUS
<1>1. DOMAIN << >> = {} /\ Fcn(<< >>, {})
    BY DEF Fcn
<1>2. Sane(<< >>)
    BY <1>1, FS_EmptySet DEF Sane
<1>3. SameSkeleton(<< >>, << >>)
    BY DEF SameSkeleton
<1> QED BY <1>2, <1>3 DEF Init, SkeletonInv

LEMMA SkeletonInvAlways == Spec => []SkeletonInv
<1>1. SkeletonInv /\ LeaveInv /\ [Next]_vars => SkeletonInv'
    BY SkeletonInvNext
<1> QED BY <1>1, SkeletonInvInit, LeaveInvAlways, PTL DEF Spec

-----------------------------------------------------------------------------
(* What the user says now.                                                 *)

KeptInv ==
    \A i \in DOMAIN request : Kept(i) =>
        /\ Quarantined \in request[i].text => Quarantined \in original[i].text
        /\ \/ {Withheld, Renamed(i)} \cap request[i].text # {}
           \/ original[i].text \cap Harmless \subseteq request[i].text

LEMMA KeptInvInit == Init => KeptInv
BY DEF Init, KeptInv

\* A leaf that must be kept is not isolated.
LEMMA KeptNotIsolated ==
    ASSUME SkeletonInv, NEW i \in DOMAIN request, Kept(i)
    PROVE  /\ \A reg : i \in Findings(request, reg) => ~ Recoverable(request, i)
           /\ \A f \in {"content", "arguments"} : i \notin Branches(request, f)
<1>1. /\ request[i].role = original[i].role /\ request[i].field = original[i].field
      /\ DOMAIN request = DOMAIN original
      /\ \A j \in DOMAIN request : /\ request[j].role = original[j].role
                                   /\ request[j].msg = original[j].msg
                                   /\ request[j].msg \in Nat
    BY DEF SkeletonInv, SameSkeleton, Sane, IsLeaf
<1>2. LastSaid(i) => i \in CurrentInput(request) /\ request[i].role = "user"
    BY <1>1 DEF LastSaid, CurrentInput
<1> QED BY <1>1, <1>2 DEF Kept, Recoverable, ApprovedForScanner, SystemOrCore, Branches, IsKey

KeptText(i, new, old, said) ==
    /\ Quarantined \in new => Quarantined \in old
    /\ \/ {Withheld, Renamed(i)} \cap new # {}
       \/ {Withheld, Renamed(i)} \cap old = {} /\ (said \cap old \cap Harmless \subseteq new)

LEMMA HarmlessKinds ==
    \A m \in Harmless : m.kind \in {"half", "token", "removed"}
BY DEF Harmless, Half, Token, Removed

\* A replacement keeps what is harmless, or puts a mark in its place.
LEMMA KeylessKeeps ==
    ASSUME NEW l, NEW i, NEW said
    PROVE  KeptText(i, KeylessText(l), l.text, said)
<1>1. \/ KeylessText(l) = l.text
      \/ KeylessText(l) = {Withheld}
      \/ KeylessText(l) = (l.text \ {Pem}) \cup {Removed}
    BY DEF KeylessText
<1>2. Pem \notin Harmless
    BY HarmlessKinds DEF Pem
<1>3. Quarantined # Withheld /\ Quarantined # Removed /\ Withheld # Pem /\ Renamed(i) # Pem
    BY DEF Quarantined, Withheld, Removed, Pem, Renamed
<1> QED BY <1>1, <1>2, <1>3 DEF KeptText

LEMMA RedactedKeeps ==
    ASSUME NEW l, NEW i, NEW said, NEW reg
    PROVE  KeptText(i, RedactedOf(l, reg), l.text, said)
<1> DEFINE hit == {m \in l.text : m.kind \in {"secret", "seam"} /\ m.of \in Secrets(reg)}
           added == (IF hit = {} THEN {} ELSE {Token})
                      \cup {Plain(m.leaves) : m \in {n \in hit : n.kind = "seam"}}
<1>1. RedactedText(l.text, reg) = (l.text \ hit) \cup added
    BY DEF RedactedText
<1>2. \A m \in added : m.kind \in {"token", "secret"}
    BY DEF Token, Plain
<1>3. /\ Quarantined.kind = "quarantined" /\ Withheld.kind = "withheld"
      /\ Renamed(i).kind = "renamed"
    BY DEF Quarantined, Withheld, Renamed
<1>4. Quarantined \notin added
    BY <1>2, <1>3
<1>5. {Withheld, Renamed(i)} \cap hit = {} /\ Harmless \cap hit = {}
    BY <1>3, HarmlessKinds
<1> HIDE DEF hit, added
<1>6. KeptText(i, RedactedText(l.text, reg), l.text, said)
    BY <1>1, <1>4, <1>5 DEF KeptText
<1>7. KeptText(i, l.text, l.text, said)
    BY DEF KeptText
<1> QED BY <1>6, <1>7 DEF RedactedOf

LEMMA KeptInvNext ==
    ASSUME KeptInv, SkeletonInv, LeaveInv, [Next]_vars
    PROVE  KeptInv'
<1>1. CASE UNCHANGED <<request, entered, original>>
    BY <1>1 DEF KeptInv, Kept, LastSaid
<1>2. ASSUME NEW r, Begins(r) PROVE KeptInv'
    BY <1>2 DEF Begins, KeptInv, Kept, LastSaid
<1>3. ASSUME original' = original, SameSkeleton(request', request),
             \A i \in DOMAIN request : Kept(i) =>
               KeptText(i, request'[i].text, request[i].text, original[i].text)
      PROVE  KeptInv'
    BY <1>3 DEF KeptInv, Kept, LastSaid, KeptText, SameSkeleton
<1>4. CASE UNCHANGED <<entered, original>> /\ RedactPrivateKeys
  <2>1. request' = Keyless(request)
      BY <1>4 DEF RedactPrivateKeys
  <2> QED BY <1>3, <1>4, <2>1, KeylessTexts, KeylessKeeps DEF SkeletonInv
<1>5. CASE UNCHANGED <<entered, original>> /\ RedactRegistered
  <2> DEFINE mid == Redacted(request, registry)
  <2>1. request' = Rename(mid)
      BY <1>5 DEF RedactRegistered
  <2>2. Sane(mid) /\ SameSkeleton(mid, request)
        /\ \A i \in DOMAIN request : mid[i].text = RedactedOf(request[i], registry)
      BY RedactedTexts DEF SkeletonInv
  <2> HIDE DEF mid
  <2>3. SameSkeleton(request', request)
      BY <2>1, <2>2, RenameTexts, SkeletonComposes
  <2>4. ASSUME NEW i \in DOMAIN request
        PROVE  KeptText(i, request'[i].text, request[i].text, original[i].text)
    <3>1. KeptText(i, mid[i].text, request[i].text, original[i].text)
        BY <2>2, RedactedKeeps
    <3>2. request'[i].text = mid[i].text \/ request'[i].text = {Renamed(i)}
        BY <2>1, <2>2, RenameTexts DEF SameSkeleton
    <3>3. Renamed(i) # Quarantined
        BY DEF Renamed, Quarantined
    <3> QED BY <3>1, <3>2, <3>3 DEF KeptText
  <2> QED BY <1>3, <1>5, <2>3, <2>4
<1>6. ASSUME original' = original, NEW j \in DOMAIN request, ~ Kept(j), NEW t,
             request' = With(request, j, t)
      PROVE  KeptInv'
  <2>1. SameSkeleton(request', request)
        /\ \A i \in DOMAIN request \ {j} : request'[i].text = request[i].text
      BY <1>6, WithText DEF SkeletonInv
  <2>2. \A i \in DOMAIN request : Kept(i) =>
          KeptText(i, request'[i].text, request[i].text, original[i].text)
      BY <1>6, <2>1 DEF KeptText
  <2> QED BY <1>3, <1>6, <2>1, <2>2
<1>7. CASE UNCHANGED <<entered, original>> /\ Quarantine
  <2>1. PICK j \in Findings(request, registry) :
          Recoverable(request, j) /\ request' = With(request, j, {Quarantined})
      BY <1>7 DEF Quarantine
  <2>2. j \in DOMAIN request /\ ~ Kept(j)
      BY <2>1, FindingsAreLeaves, KeptNotIsolated
  <2> QED BY <1>6, <1>7, <2>1, <2>2
<1>8. CASE UNCHANGED <<entered, original>> /\ BreakAggregate
  <2>1. PICK j \in AggregateBranch(request, registry) : request' = With(request, j, {Quarantined})
      BY <1>8 DEF BreakAggregate
  <2>2. j \in Branches(request, "content") \cup Branches(request, "arguments")
      BY <2>1 DEF AggregateBranch, FirstOf
  <2>3. j \in DOMAIN request /\ ~ Kept(j)
      BY <2>1, <2>2, FindingsAreLeaves, KeptNotIsolated
  <2> QED BY <1>6, <1>8, <2>1, <2>3
<1>9. CASE UNCHANGED <<entered, original>> /\ GuardResult
  <2>1. CASE request' = request
      BY <1>1, <1>9, <2>1
  <2>2. CASE request' # request
    <3>1. PICK t : request' = With(request, 1, t)
        BY <1>9, <2>2 DEF GuardResult, Block
    <3>2. 1 \in DOMAIN request /\ request[1].role = "tool" /\ request[1].field = "content"
        BY <1>9 DEF GuardResult, At, LeaveInv, Result
    <3>3. ~ Kept(1)
        BY <3>2 DEF SkeletonInv, SameSkeleton, Kept, LastSaid
    <3> QED BY <1>6, <1>9, <3>1, <3>2, <3>3
  <2> QED BY <2>1, <2>2
<1> QED BY <1>1, <1>2, <1>4, <1>5, <1>7, <1>8, <1>9, StepKinds

\* The current user's input, the system messages and the skeleton of the protocol reach
\* the provider with what they said, or with a mark that says what was taken out: in no
\* conversation does the recovery of either stage isolate them (_recover_residuals,
\* _try_aggregate_recovery).
THEOREM CurrentInputAlwaysKept == Spec => []CurrentInputKept
<1>1. KeptInv => CurrentInputKept
    BY DEF KeptInv, CurrentInputKept
<1>2. KeptInv /\ SkeletonInv /\ LeaveInv /\ [Next]_vars => KeptInv'
    BY KeptInvNext
<1> QED BY <1>1, <1>2, KeptInvInit, SkeletonInvAlways, LeaveInvAlways, PTL DEF Spec

-----------------------------------------------------------------------------
(* Preparing what is prepared.                                             *)

LEMMA FirstOfEmpty == FirstOf({}) = {}
BY DEF FirstOf

LEMMA CleanHasNoFinding ==
    ASSUME NEW r, NEW reg, Clean(r, reg)
    PROVE  FullyClean(r, reg)
<1>1. KeyFinding(r) = {}
  <2>1. {i \in DOMAIN r : r[i].field # "number" /\ (KeyMaterial(r[i].text) \/ ScanFails(r[i].text))} = {}
      BY DEF Clean
  <2> QED BY <2>1, FirstOfEmpty DEF KeyFinding
<1>2. SecretFinding(r, reg) = {}
  <2>1. {i \in DOMAIN r : r[i].field # "number" /\ \E s \in Secrets(reg) : Holds(r[i].text, s)} = {}
      BY DEF Clean
  <2> QED BY <2>1, FirstOfEmpty DEF SecretFinding
<1>3. Hits(r, reg) = {}
    BY DEF Clean, Hits
<1> QED BY <1>1, <1>2, <1>3 DEF Findings, FullyClean

LEMMA CleanForFewer ==
    ASSUME NEW r, NEW reg, NEW more, Clean(r, more), Secrets(reg) \subseteq Secrets(more)
    PROVE  Clean(r, reg)
BY DEF Clean

\* Two requests with the same skeleton and the same texts are the same.
LEMMA SameTexts ==
    ASSUME NEW r, NEW o, Sane(r), Sane(o), SameSkeleton(r, o),
           \A i \in DOMAIN o : r[i].text = o[i].text
    PROVE  r = o
<1>1. \A i \in DOMAIN o : r[i] = o[i]
    BY DEF Sane, IsLeaf, SameSkeleton
<1>2. r = [i \in DOMAIN o |-> r[i]] /\ o = [i \in DOMAIN o |-> o[i]]
    BY DEF Sane, Fcn, SameSkeleton
<1>3. [i \in DOMAIN o |-> r[i]] = [i \in DOMAIN o |-> o[i]]
    BY <1>1
<1> QED BY <1>2, <1>3

LEMMA CleanIsKeyless ==
    ASSUME NEW r, NEW reg, Sane(r), Clean(r, reg)
    PROVE  Keyless(r) = r /\ \A i \in DOMAIN r : KeyTrouble(r[i]) = "none"
<1>1. ASSUME NEW i \in DOMAIN r
      PROVE  KeylessText(r[i]) = r[i].text /\ KeyTrouble(r[i]) = "none"
  <2>1. r[i].field # "number" =>
          Boundary \notin r[i].text /\ Pem \notin r[i].text /\ ~ ScanFails(r[i].text)
      BY DEF Clean, KeyMaterial
  <2> QED BY <2>1 DEF KeylessText, KeyTrouble
<1> QED BY <1>1, KeylessTexts, SameTexts

LEMMA CleanIsRedacted ==
    ASSUME NEW r, NEW reg, Sane(r), Clean(r, reg), Collisions(r) = {}
    PROVE  Rename(Redacted(r, reg)) = r
<1>1. ASSUME NEW i \in DOMAIN r PROVE RedactedOf(r[i], reg) = r[i].text
  <2> DEFINE hit == {m \in r[i].text : m.kind \in {"secret", "seam"} /\ m.of \in Secrets(reg)}
  <2>1. hit = {}
      BY DEF Clean, Holds
  <2>2. RedactedText(r[i].text, reg) =
          (r[i].text \ hit) \cup (IF hit = {} THEN {} ELSE {Token})
             \cup {Plain(m.leaves) : m \in {n \in hit : n.kind = "seam"}}
      BY DEF RedactedText
  <2> HIDE DEF hit
  <2>3. {Plain(m.leaves) : m \in {n \in hit : n.kind = "seam"}} = {}
      BY <2>1
  <2>4. RedactedText(r[i].text, reg) = r[i].text
      BY <2>1, <2>2, <2>3
  <2> QED BY <2>4 DEF RedactedOf
<1>2. Redacted(r, reg) = r
    BY <1>1, RedactedTexts, SameTexts
<1>3. Rename(r) = r
    BY RenameTexts, SameTexts
<1> QED BY <1>2, <1>3

LEMMA RenameSeparates ==
    ASSUME NEW r, Sane(r), LabelsOwn(r)
    PROVE  Collisions(Rename(r)) = {} /\ LabelsOwn(Rename(r))
<1> DEFINE new == Rename(r)
<1>1. SameSkeleton(new, r)
      /\ \A i \in DOMAIN r : new[i].text = IF i \in Collisions(r) THEN {Renamed(i)} ELSE r[i].text
    BY RenameTexts
<1> HIDE DEF new
<1>2. \A i : Renamed(i).kind = "renamed" /\ \A j : Renamed(i) = Renamed(j) => i = j
  <2>1. \A i : Renamed(i).kind = "renamed" /\ Renamed(i).number = i
      BY DEF Renamed
  <2> QED BY <2>1
<1>3. LabelsOwn(new)
    BY <1>1, <1>2 DEF LabelsOwn, SameSkeleton
<1>4. ASSUME NEW i, NEW j, i \in DOMAIN r, j \in DOMAIN r, Collide(new, i, j) PROVE FALSE
  <2>1. /\ i # j /\ r[i].field = "label" /\ r[j].field = "label" /\ r[i].msg = r[j].msg
        /\ new[i].text = new[j].text /\ new[i].text # {}
      BY <1>1, <1>4 DEF Collide, SameSkeleton
  <2>2. CASE i \in Collisions(r)
    <3>1. new[i].text = {Renamed(i)} /\ Renamed(i) \in new[j].text
        BY <1>1, <1>4, <2>1, <2>2
    <3>2. Renamed(i) = Renamed(j)
        BY <1>1, <1>2, <1>3, <1>4, <2>1, <3>1 DEF LabelsOwn, SameSkeleton
    <3> QED BY <1>2, <2>1, <3>2
  <2>3. CASE j \in Collisions(r)
    <3>1. new[j].text = {Renamed(j)} /\ Renamed(j) \in new[i].text
        BY <1>1, <1>4, <2>1, <2>3
    <3>2. Renamed(j) = Renamed(i)
        BY <1>1, <1>2, <1>3, <1>4, <2>1, <3>1 DEF LabelsOwn, SameSkeleton
    <3> QED BY <1>2, <2>1, <3>2
  <2>4. CASE i \notin Collisions(r) /\ j \notin Collisions(r)
    <3>1. new[i].text = r[i].text /\ new[j].text = r[j].text
        BY <1>1, <1>4, <2>4
    <3>2. Collide(r, i, j)
        BY <2>1, <3>1 DEF Collide
    <3> QED BY <1>4, <2>4, <3>2 DEF Collisions
  <2> QED BY <2>2, <2>3, <2>4
<1>5. DOMAIN new = DOMAIN r
    BY <1>1 DEF SameSkeleton
<1>6. Collisions(new) = {}
    BY <1>4, <1>5 DEF Collisions
<1> QED BY <1>3, <1>6 DEF new

LEMMA KeylessOwns ==
    ASSUME NEW r, Sane(r), LabelsOwn(r)
    PROVE  LabelsOwn(Keyless(r))
<1>1. \A l : \/ KeylessText(l) = l.text
             \/ KeylessText(l) = {Withheld}
             \/ KeylessText(l) = (l.text \ {Pem}) \cup {Removed}
    BY DEF KeylessText
<1>2. Withheld.kind # "renamed" /\ Removed.kind # "renamed"
    BY DEF Withheld, Removed
<1> QED BY <1>1, <1>2, KeylessTexts DEF LabelsOwn, SameSkeleton

LEMMA RedactedOwns ==
    ASSUME NEW r, Sane(r), NEW reg, LabelsOwn(r)
    PROVE  LabelsOwn(Redacted(r, reg))
<1>1. \A l, m : m \in RedactedOf(l, reg) => m \in l.text \/ m.kind # "renamed"
    BY DEF RedactedOf, RedactedText, Token, Plain
<1> QED BY <1>1, RedactedTexts DEF LabelsOwn, SameSkeleton

Recovered == {"recovering", "passed", "sent"}

\* Once the keys that collided were renamed, none collide.
LabelInv ==
    /\ LabelsOwn(request)
    /\ phase \in Recovered => Collisions(request) = {}

LEMMA RecoveredBefore ==
    ASSUME [Next]_vars, phase' \in Recovered
    PROVE  phase \in Recovered \/ RedactRegistered
<1> USE DEF Recovered
<1>1. CASE Prepare
    BY <1>1 DEF Prepare, RedactPrivateKeys, PrivateKeysRefused, TakeSnapshot, SnapshotFails, VariantsFail,
                RedactionRefused, Quarantine, QuarantineRefused, BreakAggregate, AggregateRefused,
                BudgetSpent, Pass, Block, Go, At
<1>2. CASE Provider /\ ~ Prepare
    BY <1>2 DEF Provider, Call, Execute, ExecuteEdited, Begin, AnswerBlock, Send, MissingNext, GuardResult,
                Rewrite, callVars, Block, Go, At
<1>3. CASE Tool
    BY <1>3 DEF Tool, ToolReturns, ToolWithheld, ProgramReturns, LookOn, ProgramPasses, ProgramWithheld,
                Withhold, Receive, Begin, callVars
<1>4. CASE UNCHANGED vars
    BY <1>4 DEF vars, egressVars, callVars
<1> QED BY <1>1, <1>2, <1>3, <1>4 DEF Next

\* Recovery isolates no key.
LEMMA KeysNotIsolated ==
    /\ \A i \in Findings(request, registry) : Recoverable(request, i) => request[i].field # "label"
    /\ \A i \in AggregateBranch(request, registry) : request[i].field # "label"
BY DEF Recoverable, IsKey, AggregateBranch, FirstOf, Branches

LEMMA LabelInvNext ==
    ASSUME LabelInv, SkeletonInv, LeaveInv, [Next]_vars
    PROVE  LabelInv'
<1>1. CASE UNCHANGED <<request, entered, original>>
  <2>1. phase' \in Recovered => Collisions(request') = {}
    <3>1. CASE phase \in Recovered
        BY <1>1, <3>1 DEF LabelInv
    <3>2. CASE RedactRegistered
      <4>1. request = Rename(Redacted(request, registry))
          BY <1>1, <3>2 DEF RedactRegistered
      <4>2. Collisions(Rename(Redacted(request, registry))) = {}
          BY RedactedOwns, RedactedTexts, RenameSeparates DEF LabelInv, SkeletonInv
      <4> QED BY <1>1, <4>1, <4>2
    <3> QED BY <3>1, <3>2, RecoveredBefore
  <2> QED BY <1>1, <2>1 DEF LabelInv
<1>2. CASE RedactPrivateKeys
  <2>1. request' = Keyless(request) /\ phase' = "keyless"
      BY <1>2 DEF RedactPrivateKeys, Go
  <2>2. LabelsOwn(request')
      BY <2>1, KeylessOwns DEF LabelInv, SkeletonInv
  <2> QED BY <2>1, <2>2 DEF LabelInv, Recovered
<1>3. CASE RedactRegistered
  <2>1. request' = Rename(Redacted(request, registry))
      BY <1>3 DEF RedactRegistered
  <2>2. Collisions(request') = {} /\ LabelsOwn(request')
      BY <2>1, RedactedOwns, RedactedTexts, RenameSeparates DEF LabelInv, SkeletonInv
  <2> QED BY <2>2 DEF LabelInv
<1>4. CASE Quarantine
  <2>1. PICK i \in Findings(request, registry) :
          Recoverable(request, i) /\ request' = With(request, i, {Quarantined})
      BY <1>4 DEF Quarantine
  <2>2. i \in DOMAIN request /\ request[i].field # "label" /\ phase \in Recovered
      BY <1>4, <2>1, FindingsAreLeaves, KeysNotIsolated DEF Quarantine, At, Recovered
  <2>3. LabelsOwn(request') /\ Collisions(request') \subseteq Collisions(request)
      BY <2>1, <2>2, WithOwns DEF LabelInv, SkeletonInv
  <2> QED BY <2>2, <2>3 DEF LabelInv
<1>5. CASE BreakAggregate
  <2>1. PICK i \in AggregateBranch(request, registry) : request' = With(request, i, {Quarantined})
      BY <1>5 DEF BreakAggregate
  <2>2. i \in DOMAIN request /\ request[i].field # "label" /\ phase \in Recovered
      BY <1>5, <2>1, FindingsAreLeaves, KeysNotIsolated DEF BreakAggregate, At, Recovered
  <2>3. LabelsOwn(request') /\ Collisions(request') \subseteq Collisions(request)
      BY <2>1, <2>2, WithOwns DEF LabelInv, SkeletonInv
  <2> QED BY <2>2, <2>3 DEF LabelInv
<1>6. CASE GuardResult
  <2>1. phase' \notin Recovered
      BY <1>6 DEF GuardResult, Go, Block, Recovered
  <2>2. LabelsOwn(request')
    <3>1. CASE request' = request
        BY <3>1 DEF LabelInv
    <3>2. CASE request' # request
      <4>1. PICK t : request' = With(request, 1, t)
          BY <1>6, <3>2 DEF GuardResult, Block
      <4>2. 1 \in DOMAIN request /\ request[1].field = "content"
          BY <1>6 DEF GuardResult, At, LeaveInv, Result
      <4> QED BY <4>1, <4>2, WithOwns DEF LabelInv, SkeletonInv
    <3> QED BY <3>1, <3>2
  <2> QED BY <2>1, <2>2 DEF LabelInv
<1>7. ASSUME phase' = "entered", NEW r, Begins(r), LabelsOwn(request) => LabelsOwn(r) PROVE LabelInv'
    BY <1>7 DEF LabelInv, Begins, Recovered
<1> QED BY <1>1, <1>2, <1>3, <1>4, <1>5, <1>6, <1>7, StepKinds

LEMMA LabelInvAlways == Spec => []LabelInv
<1>1. Init => LabelInv
    BY DEF Init, LabelInv, LabelsOwn, Recovered
<1>2. LabelInv /\ SkeletonInv /\ LeaveInv /\ [Next]_vars => LabelInv'
    BY LabelInvNext
<1> QED BY <1>1, <1>2, SkeletonInvAlways, LeaveInvAlways, PTL DEF Spec

\* What the first stage passed is clean, and has no keys that collide.
CalmInv ==
    /\ phase = "idle" => stage = "request"
    /\ stage = "request" /\ phase # "passed" => calm = <<>>
    /\ calm # <<>> => Clean(calm[1], calm[2]) /\ Collisions(calm[1]) = {}

LEMMA CalmInvNext ==
    ASSUME CalmInv, SkeletonInv, LabelInv, [Next]_vars
    PROVE  CalmInv'
<1>1. ASSUME calm' = calm, phase' # "idle",
             stage' = "request" => stage = "request" /\ (phase # "passed" \/ phase' = "passed")
      PROVE  CalmInv'
    BY <1>1 DEF CalmInv
<1>2. CASE Prepare /\ ~ Pass
  <2>1. calm' = calm /\ stage' = stage /\ phase # "passed" /\ phase' # "idle"
      BY <1>2 DEF Prepare, RedactPrivateKeys, PrivateKeysRefused, TakeSnapshot, SnapshotFails, VariantsFail,
                RedactRegistered, RedactionRefused, Quarantine, QuarantineRefused, BreakAggregate,
                AggregateRefused, BudgetSpent, Block, Go, At, history, NeedsRegistry
  <2> QED BY <1>1, <2>1
<1>3. CASE Pass
  <2>1. stage' = stage /\ phase' = "passed"
      BY <1>3 DEF Pass, Go
  <2>2. CASE stage = "request"
    <3>1. calm' = <<request, registry>> /\ At("recovering") /\ FullyClean(request, registry)
        BY <1>3, <2>2 DEF Pass
    <3>2. Clean(request, registry) /\ Collisions(request) = {}
        BY <3>1, NoFindingIsClean DEF SkeletonInv, Sane, LabelInv, At, Recovered
    <3>3. Clean(calm'[1], calm'[2]) /\ Collisions(calm'[1]) = {}
        BY <3>1, <3>2
    <3> QED BY <2>1, <3>3 DEF CalmInv
  <2>3. CASE stage # "request"
      BY <1>1, <1>3, <2>1, <2>3 DEF Pass
  <2> QED BY <2>2, <2>3
<1>4. CASE Call
  <2>1. calm' = calm /\ phase' = "entered" /\ At("idle")
      BY <1>4 DEF Call, Begin
  <2> QED BY <1>1, <2>1 DEF CalmInv, At
<1>5. CASE Execute \/ ExecuteEdited
  <2>1. stage' = "execution" /\ phase' = "entered" /\ (calm' = calm \/ calm' = <<>>)
      BY <1>5 DEF Execute, ExecuteEdited, Begin
  <2> QED BY <2>1 DEF CalmInv
<1>6. CASE AnswerBlock \/ Send \/ MissingNext \/ GuardResult \/ Rewrite
  <2>1. /\ calm' = calm /\ (stage' = stage \/ stage' = "execution")
        /\ phase' # "idle" /\ (stage = "request" => phase' = phase \/ phase # "passed")
      BY <1>6 DEF AnswerBlock, Send, MissingNext, GuardResult, Rewrite, Go, Block, At, history, callVars
  <2> QED BY <1>1, <2>1
<1>7. CASE Tool
  <2>1. calm' = calm
      BY <1>7 DEF Tool, ToolReturns, ToolWithheld, ProgramReturns, LookOn, ProgramPasses, ProgramWithheld,
                  Withhold, Receive, history
  <2>2. UNCHANGED <<stage, phase>> \/ (stage' = "result" /\ phase' # "idle")
      BY <1>7 DEF Tool, ToolReturns, ToolWithheld, ProgramReturns, LookOn, ProgramPasses, ProgramWithheld,
                  Withhold, Receive, Begin, callVars
  <2> QED BY <2>1, <2>2 DEF CalmInv
<1>8. CASE UNCHANGED vars
  <2>1. UNCHANGED <<stage, phase, calm>>
      BY <1>8 DEF vars, egressVars, callVars, history
  <2> QED BY <2>1 DEF CalmInv
<1> QED BY <1>2, <1>3, <1>4, <1>5, <1>6, <1>7, <1>8 DEF Next, Provider

Second == stage = "execution" /\ calm # <<>> /\ calm[1] = entered

\* The registry of the second pass has nothing that the first one's had not.
KnownTexts == Secrets(registry) \subseteq Secrets(calm[2])

SecondInv ==
    /\ phase \in {"entered", "keyless"} /\ stage # "result" => registry = {}
    /\ phase = "passed" => FullyClean(request, registry)
    /\ Second =>
         /\ phase \in {"entered", "keyless", "snapshot"} => request = entered
         /\ phase \in Recovered /\ KnownTexts => request = entered
         /\ phase = "blocked" /\ KnownTexts =>
              code = "CG-CONFIG-UNAVAILABLE" \/ (code = "CG-SCANNER-ERROR" /\ FullyClean(request, registry))

LEMMA CleanWhenSecond ==
    ASSUME CalmInv, Second, request = entered
    PROVE  /\ Clean(request, calm[2]) /\ Clean(request, {}) /\ Collisions(request) = {}
           /\ KnownTexts => Clean(request, registry)
<1>1. Clean(request, calm[2]) /\ Collisions(request) = {}
    BY DEF CalmInv, Second
<1>2. Secrets({}) = {}
    BY DEF Secrets
<1> QED BY <1>1, <1>2, CleanForFewer DEF KnownTexts

\* A step of the preparation that changes the request or blocks.
LEMMA SecondPrepared ==
    ASSUME SecondInv, CalmInv, SkeletonInv, Prepare, Second
    PROVE  SecondInv'
<1>1. stage' = stage /\ stage = "execution" /\ entered' = entered /\ calm' = calm
    BY DEF Prepare, RedactPrivateKeys, PrivateKeysRefused, TakeSnapshot, SnapshotFails, VariantsFail,
           RedactRegistered, RedactionRefused, Quarantine, QuarantineRefused, BreakAggregate,
           AggregateRefused, BudgetSpent, Block, Go, At, history, NeedsRegistry, Second, Pass
<1>2. ASSUME NEW c, Block(c),
             KnownTexts => c = "CG-CONFIG-UNAVAILABLE" \/ (c = "CG-SCANNER-ERROR" /\ FullyClean(request, registry))
      PROVE  SecondInv'
  <2>1. phase' = "blocked" /\ code' = c /\ UNCHANGED <<request, registry, calm>>
      BY <1>2 DEF Block, history
  <2>2. KnownTexts' = KnownTexts /\ FullyClean(request, registry)' = FullyClean(request, registry)
      BY <2>1 DEF KnownTexts
  <2> QED BY <1>2, <2>1, <2>2 DEF SecondInv, Recovered
<1>3. CASE At("entered") \/ At("keyless")
  <2>1. request = entered /\ registry = {}
      BY <1>1, <1>3 DEF SecondInv, At
  <2>2. Clean(request, calm[2]) /\ Clean(request, {}) /\ Collisions(request) = {}
      BY <2>1, CleanWhenSecond
  <2>3. Keyless(request) = request /\ \A i \in DOMAIN request : KeyTrouble(request[i]) = "none"
      BY <2>2, CleanIsKeyless DEF SkeletonInv
  <2>4. CASE RedactPrivateKeys
    <3>1. request' = request /\ phase' = "keyless" /\ registry' = registry
        BY <2>3, <2>4 DEF RedactPrivateKeys, Go
    <3> QED BY <1>1, <2>1, <3>1 DEF SecondInv, Recovered
  <2>5. ~ PrivateKeysRefused
      BY <2>2, <2>3 DEF PrivateKeysRefused, FirstOf
  <2>6. CASE TakeSnapshot
    <3>1. request' = request /\ phase' = "snapshot"
        BY <2>6 DEF TakeSnapshot, Go
    <3> QED BY <1>1, <2>1, <3>1 DEF SecondInv, Recovered
  <2>7. CASE SnapshotFails
      BY <1>2, <2>7 DEF SnapshotFails
  <2>8. CASE VariantsFail
    <3>1. FullyClean(request, registry)
        BY <2>1, <2>2, CleanHasNoFinding
    <3> QED BY <1>2, <2>8, <3>1 DEF VariantsFail
  <2> QED BY <1>3, <2>4, <2>5, <2>6, <2>7, <2>8
          DEF Prepare, RedactRegistered, RedactionRefused, Quarantine, QuarantineRefused, BreakAggregate,
              AggregateRefused, BudgetSpent, Pass, At
<1>4. CASE At("snapshot")
  <2>1. request = entered
      BY <1>4 DEF SecondInv, At
  <2>2. Collisions(request) = {} /\ (KnownTexts => Clean(request, registry))
      BY <2>1, CleanWhenSecond
  <2>3. CASE RedactRegistered
    <3>1. request' = Rename(Redacted(request, registry)) /\ phase' = "recovering"
          /\ registry' = registry
        BY <2>3 DEF RedactRegistered, Go
    <3>2. KnownTexts => request' = request
        BY <2>2, <3>1, CleanIsRedacted DEF SkeletonInv
    <3>3. KnownTexts' = KnownTexts
        BY <1>1, <3>1 DEF KnownTexts
    <3> QED BY <1>1, <2>1, <3>1, <3>2, <3>3 DEF SecondInv
  <2>4. CASE RedactionRefused
    <3>1. KnownTexts => \A i \in DOMAIN request : ~ ProtocolHit(request[i]) /\ ~ KeywordHit(request[i])
        BY <2>2 DEF Clean, ProtocolHit, KeywordHit
    <3>2. ~ KnownTexts
        BY <2>4, <3>1 DEF RedactionRefused
    <3> QED BY <1>2, <2>4, <3>2 DEF RedactionRefused
  <2> QED BY <1>1, <1>4, <2>3, <2>4
          DEF Prepare, RedactPrivateKeys, PrivateKeysRefused, TakeSnapshot, SnapshotFails, VariantsFail,
              Quarantine, QuarantineRefused, BreakAggregate, AggregateRefused, BudgetSpent, Pass, At,
              NeedsRegistry
<1>5. CASE At("recovering")
  <2>1. KnownTexts => request = entered
      BY <1>5 DEF SecondInv, At, Recovered
  <2>2. KnownTexts => FullyClean(request, registry)
      BY <2>1, CleanWhenSecond, CleanHasNoFinding
  <2>3. KnownTexts => Findings(request, registry) = {} /\ Hits(request, registry) = {}
      BY <2>2 DEF FullyClean
  <2>4. CASE Quarantine \/ BreakAggregate
    <3>1. ~ KnownTexts
        BY <2>3, <2>4 DEF Quarantine, BreakAggregate
    <3>2. phase' = "recovering" /\ registry' = registry
        BY <2>4 DEF Quarantine, BreakAggregate, Go
    <3>3. ~ KnownTexts'
        BY <1>1, <3>1, <3>2 DEF KnownTexts
    <3> QED BY <3>2, <3>3 DEF SecondInv
  <2>5. CASE QuarantineRefused \/ AggregateRefused \/ BudgetSpent
    <3>1. ~ KnownTexts
        BY <2>2, <2>3, <2>5 DEF QuarantineRefused, AggregateRefused, BudgetSpent
    <3> QED BY <1>2, <2>5, <3>1 DEF QuarantineRefused, AggregateRefused, BudgetSpent
  <2>6. CASE Pass
    <3>1. /\ phase' = "passed" /\ request' = request /\ registry' = registry
          /\ FullyClean(request, registry)
        BY <2>6 DEF Pass, Go
    <3>2. KnownTexts' = KnownTexts /\ FullyClean(request, registry)' = FullyClean(request, registry)
        BY <1>1, <3>1 DEF KnownTexts
    <3> QED BY <1>1, <2>1, <3>1, <3>2 DEF SecondInv
  <2> QED BY <1>1, <1>5, <2>4, <2>5, <2>6
          DEF Prepare, RedactPrivateKeys, PrivateKeysRefused, TakeSnapshot, SnapshotFails, VariantsFail,
              RedactRegistered, RedactionRefused, At, NeedsRegistry
<1> QED BY <1>3, <1>4, <1>5
        DEF Prepare, RedactPrivateKeys, PrivateKeysRefused, TakeSnapshot, SnapshotFails, VariantsFail,
            RedactRegistered, RedactionRefused, Quarantine, QuarantineRefused, BreakAggregate,
            AggregateRefused, BudgetSpent, Pass, NeedsRegistry

LEMMA SecondInvNext ==
    ASSUME SecondInv, CalmInv, SkeletonInv, [Next]_vars
    PROVE  SecondInv'
<1>1. ASSUME Prepare, ~ Second PROVE SecondInv'
  <2>1. /\ stage' = stage /\ entered' = entered /\ (calm' = calm \/ stage = "request")
        /\ phase' = "passed" => FullyClean(request, registry) /\ request' = request /\ registry' = registry
        /\ phase' \in {"entered", "keyless"} =>
             registry' = registry /\ phase = "entered"
      BY <1>1 DEF Prepare, RedactPrivateKeys, PrivateKeysRefused, TakeSnapshot, SnapshotFails, VariantsFail,
                  RedactRegistered, RedactionRefused, Quarantine, QuarantineRefused, BreakAggregate,
                  AggregateRefused, BudgetSpent, Block, Go, At, history, NeedsRegistry, Pass
  <2>2. ~ Second'
      BY <1>1, <2>1 DEF Second
  <2>3. FullyClean(request, registry)' = FullyClean(request', registry')
      OBVIOUS
  <2> QED BY <2>1, <2>2, <2>3 DEF SecondInv
<1>2. ASSUME NEW st, NEW r, Begin(st, r) PROVE SecondInv'
    BY <1>2 DEF Begin, SecondInv, Recovered
<1>3. CASE Call \/ Execute \/ ExecuteEdited \/ Receive
    BY <1>2, <1>3 DEF Call, Execute, ExecuteEdited, Receive
<1>4. CASE AnswerBlock
  <2>1. calm' = <<>> /\ phase' = "blocked"
      BY <1>4 DEF AnswerBlock, CalmInv, At, history
  <2> QED BY <2>1 DEF SecondInv, Second
<1>5. CASE Send \/ MissingNext
  <2>1. /\ At("passed") /\ UNCHANGED <<stage, request, registry, entered, calm>>
        /\ phase' = "sent" \/ (phase' = "blocked" /\ code' = "CG-SCANNER-ERROR")
      BY <1>5 DEF Send, MissingNext, Go, history
  <2>2. KnownTexts' = KnownTexts /\ Second' = Second
      BY <2>1 DEF KnownTexts, Second
  <2> QED BY <2>1, <2>2 DEF SecondInv, At, Recovered
<1>6. CASE GuardResult \/ Withhold \/ ProgramReturns
  <2>1. stage' = "result" /\ phase' \in {"returned", "blocked", "looking"}
      BY <1>6 DEF GuardResult, Withhold, ProgramReturns, Go, Block
  <2> QED BY <2>1 DEF SecondInv, Second
<1>7. CASE Rewrite \/ LookOn \/ UNCHANGED vars
  <2>1. UNCHANGED <<stage, phase, request, registry, code, entered, calm>>
      BY <1>7 DEF Rewrite, LookOn, vars, egressVars, callVars, history
  <2>2. KnownTexts' = KnownTexts /\ Second' = Second
      BY <2>1 DEF KnownTexts, Second
  <2> QED BY <2>1, <2>2 DEF SecondInv
<1> QED BY <1>1, SecondPrepared, <1>3, <1>4, <1>5, <1>6, <1>7
        DEF Next, Provider, Tool, ToolReturns, ToolWithheld, ProgramPasses, ProgramWithheld

LEMMA SecondInvAlways == Spec => [](SecondInv /\ CalmInv)
<1>1. Init => SecondInv /\ CalmInv
    BY DEF Init, SecondInv, CalmInv, Recovered, Second
<1>2. SecondInv /\ CalmInv /\ SkeletonInv /\ LabelInv /\ [Next]_vars => SecondInv' /\ CalmInv'
    BY SecondInvNext, CalmInvNext
<1> QED BY <1>1, <1>2, SkeletonInvAlways, LabelInvAlways, PTL DEF Spec

\* What the first stage has passed is passed unchanged by the second, for any request
\* and any registry: the placeholders of the guard trouble it no more, and keys that it
\* has renamed do not collide again (_prepare_provider_bound).
THEOREM SecondPassAlwaysQuiet == Spec => []SecondPassQuiet
<1>1. SecondInv => SecondPassQuiet
  <2> SUFFICES ASSUME SecondInv, stage = "execution", calm # <<>>, calm[1] = entered,
                      registry \in {{}, calm[2]}
               PROVE  /\ phase = "blocked" =>
                           \/ code = "CG-CONFIG-UNAVAILABLE"
                           \/ code = "CG-SCANNER-ERROR" /\ FullyClean(request, registry)
                      /\ phase \in {"passed", "sent"} => request = calm[1]
      BY DEF SecondPassQuiet
  <2>1. Second /\ KnownTexts
      BY DEF Second, KnownTexts, Secrets
  <2> QED BY <2>1 DEF SecondInv, Recovered
<1> QED BY <1>1, SecondInvAlways, PTL

-----------------------------------------------------------------------------
(* What is not blocked.                                                    *)

\* A request that recovery is for: its trouble is in few leaves of its history.
Mild(r) == InHistory(r) /\ TornOnce(r)

\* A text in which no scan finds anything, and that is no half of a secret.
Calmed(text, reg) ==
    /\ \A s \in Secrets(reg) : ~ Holds(text, s)
    /\ ~ KeyMaterial(text) /\ ~ ScanFails(text)

\* The troubled leaves that have been isolated are those in Q; every other leaf was
\* untroubled at the beginning and is calm, or is still to be isolated.
Isolated(Q) ==
    /\ Q \subseteq Trouble(entered) /\ Cardinality(Q) = rounds
    /\ \A i \in Q : request[i].text = {Quarantined}
    /\ \A i \in DOMAIN request \ Trouble(entered) : Calmed(request[i].text, registry)
    /\ \A i \in DOMAIN request, s \in Secret : Half(s) \in request[i].text => Half(s) \in entered[i].text

MildInv ==
    /\ version \in Version /\ Secrets(registry) \subseteq Secret
    /\ Mild(entered) /\ stage # "result" =>
         /\ phase = "entered" => request = entered
         /\ phase \in {"keyless", "snapshot"} => request = Keyless(entered)
         /\ phase = "recovering" => \E Q \in SUBSET Trouble(entered) : Isolated(Q)
         /\ phase = "blocked" =>
              /\ code \notin {"CG-RESIDUAL-SECRET", "CG-REDACTION-COLLISION"}
              /\ registry # {} => FullyClean(request, registry)

LEMMA TroubleFinite ==
    ASSUME NEW r, Sane(r)
    PROVE  Trouble(r) \subseteq DOMAIN r /\ IsFiniteSet(Trouble(r))
<1>1. Trouble(r) \subseteq DOMAIN r
    BY DEF Trouble
<1> QED BY <1>1, FS_Subset DEF Sane

\* Where there is no trouble the keys are out and the fields of the protocol empty.
LEMMA NoTrouble ==
    ASSUME NEW r, NEW i \in DOMAIN r, i \notin Trouble(r)
    PROVE  /\ ~ KeyMaterial(r[i].text) /\ ~ ScanFails(r[i].text)
           /\ \A m \in r[i].text : m.kind \notin {"seam", "half"}
           /\ r[i].field \in {"model", "name", "keyword", "label", "number"} => r[i].text = {}
BY DEF Trouble

LEMMA KeylessHalves ==
    ASSUME NEW l, NEW m, m \in KeylessText(l)
    PROVE  m \in l.text \/ m \in {Withheld, Removed}
BY DEF KeylessText

LEMMA KeylessUntroubled ==
    ASSUME NEW r, Sane(r), NEW i \in DOMAIN r, i \notin Trouble(r)
    PROVE  KeylessText(r[i]) = r[i].text /\ KeyTrouble(r[i]) = "none"
<1>1. Boundary \notin r[i].text /\ Pem \notin r[i].text /\ ~ ScanFails(r[i].text)
    BY NoTrouble DEF KeyMaterial
<1> QED BY <1>1 DEF KeylessText, KeyTrouble

\* The first two steps do not refuse it.
LEMMA MildNotRefused ==
    ASSUME NEW r, Sane(r), InHistory(r)
    PROVE  /\ \A i \in DOMAIN r : KeyTrouble(r[i]) = "none"
           /\ Collisions(Keyless(r)) = {}
           /\ \A i \in DOMAIN r : r[i].field \in {"model", "name", "keyword", "label", "number"} =>
                Keyless(r)[i].text = {}
<1>1. ASSUME NEW i \in DOMAIN r
      PROVE  /\ KeyTrouble(r[i]) = "none"
             /\ r[i].field \in {"model", "name", "keyword", "label", "number"} => KeylessText(r[i]) = {}
  <2>1. CASE i \in Trouble(r)
    <3>1. r[i].field = "content"
        BY <2>1 DEF InHistory
    <3> QED BY <3>1 DEF KeyTrouble, IsKey
  <2>2. CASE i \notin Trouble(r)
      BY <2>2, KeylessUntroubled, NoTrouble
  <2> QED BY <2>1, <2>2
<1>2. \A i \in DOMAIN r : r[i].field \in {"model", "name", "keyword", "label", "number"} =>
        Keyless(r)[i].text = {}
    BY <1>1, KeylessTexts
<1>3. Collisions(Keyless(r)) = {}
    BY <1>2, KeylessTexts DEF Collisions, Collide, SameSkeleton
<1> QED BY <1>1, <1>2, <1>3

\* What redaction leaves of an untroubled leaf is calm, and it makes no halves.
LEMMA RedactedCalm ==
    ASSUME NEW r, Sane(r), NEW reg, NEW i \in DOMAIN r, i \notin Trouble(r)
    PROVE  Calmed(RedactedOf(r[i], reg), reg)
<1>1. /\ ~ KeyMaterial(r[i].text) /\ ~ ScanFails(r[i].text)
      /\ \A m \in r[i].text : m.kind # "seam"
      /\ r[i].field = "number" => r[i].text = {}
    BY NoTrouble
<1> DEFINE hit == {m \in r[i].text : m.kind \in {"secret", "seam"} /\ m.of \in Secrets(reg)}
           new == (r[i].text \ hit) \cup (IF hit = {} THEN {} ELSE {Token})
<1>2. RedactedText(r[i].text, reg) = new
  <2>1. RedactedText(r[i].text, reg) = new \cup {Plain(m.leaves) : m \in {n \in hit : n.kind = "seam"}}
      BY DEF RedactedText
  <2>2. {n \in hit : n.kind = "seam"} = {}
      BY <1>1
  <2>3. {Plain(m.leaves) : m \in {n \in hit : n.kind = "seam"}} = {}
      BY <2>2
  <2> HIDE DEF new, hit
  <2> QED BY <2>1, <2>3
<1>3. Token.kind = "token" /\ Pem.kind = "pem" /\ Boundary.kind = "boundary" /\ Opaque.kind = "opaque"
    BY DEF Token, Pem, Boundary, Opaque
<1>4. Calmed(new, reg)
    BY <1>1, <1>3 DEF Calmed, Holds, KeyMaterial, ScanFails
<1>5. r[i].field = "number" => Calmed(r[i].text, reg)
    BY <1>1 DEF Calmed, Holds
<1> HIDE DEF new
<1> QED BY <1>2, <1>4, <1>5 DEF RedactedOf

LEMMA RedactedHalves ==
    ASSUME NEW l, NEW reg, NEW s, Half(s) \in RedactedOf(l, reg)
    PROVE  Half(s) \in l.text
BY DEF RedactedOf, RedactedText, Half, Token, Plain

LEMMA IsolatedStart ==
    ASSUME SkeletonInv, InHistory(entered), request = Keyless(entered),
           request' = Rename(Redacted(request, registry)), rounds' = 0,
           UNCHANGED <<entered, registry>>
    PROVE  Isolated({})'
<1> DEFINE mid == Redacted(request, registry)
<1>1. Sane(mid) /\ SameSkeleton(mid, request)
      /\ \A i \in DOMAIN request : mid[i].text = RedactedOf(request[i], registry)
    BY RedactedTexts DEF SkeletonInv
<1>2. \A i \in DOMAIN request : request[i].field = "label" => request[i].text = {}
    BY MildNotRefused DEF SkeletonInv, SameSkeleton
<1>3. RedactedText({}, registry) = {}
  <2> DEFINE hit == {m \in {} : m.kind \in {"secret", "seam"} /\ m.of \in Secrets(registry)}
  <2>1. hit = {}
      OBVIOUS
  <2>2. RedactedText({}, registry) =
          ({} \ hit) \cup (IF hit = {} THEN {} ELSE {Token})
             \cup {Plain(m.leaves) : m \in {n \in hit : n.kind = "seam"}}
      BY DEF RedactedText
  <2> HIDE DEF hit
  <2>3. {Plain(m.leaves) : m \in {n \in hit : n.kind = "seam"}} = {}
      BY <2>1
  <2> QED BY <2>1, <2>2, <2>3
<1>0. request' = Rename(mid)
    OBVIOUS
<1> HIDE DEF mid
<1>4. ASSUME NEW i \in DOMAIN mid, mid[i].field = "label"
      PROVE  mid[i].text = {}
  <2>1. i \in DOMAIN request /\ request[i].field = "label"
      BY <1>1, <1>4 DEF SameSkeleton
  <2>2. request[i].text = {} /\ mid[i].text = RedactedOf(request[i], registry)
      BY <1>1, <1>2, <2>1
  <2> QED BY <1>3, <2>1, <2>2 DEF RedactedOf
<1>5. Collisions(mid) = {}
    BY <1>4 DEF Collisions, Collide
<1>6. DOMAIN request' = DOMAIN entered /\ DOMAIN request = DOMAIN entered
      /\ \A i \in DOMAIN entered : request'[i].text = RedactedOf(request[i], registry)
  <2>1. DOMAIN request = DOMAIN entered /\ DOMAIN mid = DOMAIN request
      BY <1>1 DEF SkeletonInv, SameSkeleton
  <2>2. DOMAIN Rename(mid) = DOMAIN mid /\ \A i \in DOMAIN mid : Rename(mid)[i].text = mid[i].text
      BY <1>1, <1>5, RenameTexts DEF SameSkeleton
  <2> QED BY <1>0, <1>1, <2>1, <2>2
<1>7. ASSUME NEW i \in DOMAIN entered, i \notin Trouble(entered)
      PROVE  Calmed(request'[i].text, registry)
  <2>1. request[i].text = entered[i].text /\ request[i].field = entered[i].field
      BY <1>7, KeylessTexts, KeylessUntroubled DEF SkeletonInv, SameSkeleton
  <2>2. RedactedOf(request[i], registry) = RedactedOf(entered[i], registry)
      BY <2>1 DEF RedactedOf
  <2> QED BY <1>6, <1>7, <2>2, RedactedCalm DEF SkeletonInv
<1>8. ASSUME NEW i \in DOMAIN entered, NEW s \in Secret, Half(s) \in request'[i].text
      PROVE  Half(s) \in entered[i].text
  <2>1. Half(s) \in request[i].text
      BY <1>6, <1>8, RedactedHalves
  <2>2. Half(s) \in KeylessText(entered[i])
      BY <2>1, KeylessTexts DEF SkeletonInv
  <2>3. Half(s) # Withheld /\ Half(s) # Removed
    <3>1. Half(s).kind = "half" /\ Withheld.kind = "withheld" /\ Removed.kind = "removed"
        BY DEF Half, Withheld, Removed
    <3> QED BY <3>1
  <2> QED BY <2>2, <2>3, KeylessHalves
<1>9. Cardinality({}) = 0
    BY FS_EmptySet
<1> QED BY <1>6, <1>7, <1>8, <1>9 DEF Isolated, Calmed, Secrets

\* A marker troubles nobody.
LEMMA MarkerCalm ==
    /\ \A reg : Calmed({Quarantined}, reg)
    /\ \A s : Half(s) # Quarantined
BY DEF Calmed, Holds, KeyMaterial, ScanFails, Quarantined, Pem, Boundary, Opaque, Half

LEMMA FindingIsTrouble ==
    ASSUME SkeletonInv, Mild(entered), NEW Q, Isolated(Q), NEW i \in DOMAIN request,
           ~ Calmed(request[i].text, registry)
    PROVE  /\ i \in Trouble(entered) \ Q /\ request[i].text # {Quarantined}
           /\ request[i].field = "content" /\ request[i].role \in {"user", "assistant", "tool"}
           /\ i \notin CurrentInput(request)
<1>1. i \in Trouble(entered) \ Q /\ request[i].text # {Quarantined}
    BY MarkerCalm DEF Isolated
<1>2. /\ entered[i].field = "content" /\ entered[i].role \in {"user", "assistant", "tool"}
      /\ i \notin CurrentInput(entered)
    BY <1>1 DEF Mild, InHistory
<1>3. CurrentInput(request) = CurrentInput(entered)
    BY DEF CurrentInput, SkeletonInv, SameSkeleton
<1> QED BY <1>1, <1>2, <1>3 DEF SkeletonInv, SameSkeleton

LEMMA FoundIsNotCalm ==
    ASSUME NEW r, NEW reg, NEW i \in Findings(r, reg)
    PROVE  ~ Calmed(r[i].text, reg)
<1>1. KeyFinding(r) \subseteq {j \in DOMAIN r : KeyMaterial(r[j].text) \/ ScanFails(r[j].text)}
    BY DEF KeyFinding, FirstOf
<1>2. SecretFinding(r, reg) \subseteq {j \in DOMAIN r : \E s \in Secrets(reg) : Holds(r[j].text, s)}
    BY DEF SecretFinding, FirstOf
<1>3. i \in KeyFinding(r) \cup SecretFinding(r, reg)
    BY DEF Findings
<1> QED BY <1>1, <1>2, <1>3 DEF Calmed

\* Whatever is found can be isolated, and is one more leaf of the trouble.
LEMMA FoundIsRecoverable ==
    ASSUME SkeletonInv, Mild(entered), NEW Q, Isolated(Q), NEW i \in Findings(request, registry)
    PROVE  i \in DOMAIN request /\ i \in Trouble(entered) \ Q /\ Recoverable(request, i)
<1>1. i \in DOMAIN request /\ ~ Calmed(request[i].text, registry)
    BY FindingsAreLeaves, FoundIsNotCalm
<1>2. /\ i \in Trouble(entered) \ Q /\ request[i].text # {Quarantined}
      /\ request[i].field = "content" /\ request[i].role \in {"user", "assistant", "tool"}
      /\ i \notin CurrentInput(request)
    BY <1>1, FindingIsTrouble
<1> QED BY <1>1, <1>2 DEF Recoverable, IsKey, ApprovedForScanner, SystemOrCore

LEMMA OneMoreIsolated ==
    ASSUME SkeletonInv, NEW Q, Isolated(Q), NEW i \in DOMAIN request, i \in Trouble(entered) \ Q,
           rounds \in Nat,
           request' = With(request, i, {Quarantined}), rounds' = rounds + 1,
           UNCHANGED <<entered, registry>>
    PROVE  Isolated(Q \cup {i})'
<1>1. /\ DOMAIN request' = DOMAIN request /\ request'[i].text = {Quarantined}
      /\ \A j \in DOMAIN request \ {i} : request'[j].text = request[j].text
    BY WithText DEF SkeletonInv, SameSkeleton
<1>2. IsFiniteSet(Q)
    BY TroubleFinite, FS_Subset DEF Isolated, SkeletonInv
<1>3. Cardinality(Q \cup {i}) = rounds + 1
    BY <1>2, FS_AddElement DEF Isolated
<1>4. \A j \in Q : j \in DOMAIN request \ {i}
    BY TroubleFinite DEF Isolated, SkeletonInv, SameSkeleton
<1>5. \A j \in Q \cup {i} : request'[j].text = {Quarantined}
    BY <1>1, <1>4 DEF Isolated
<1>6. \A j \in DOMAIN request \ Trouble(entered) : Calmed(request'[j].text, registry)
    BY <1>1 DEF Isolated
<1>7. \A j \in DOMAIN request, s \in Secret : Half(s) \in request'[j].text => Half(s) \in entered[j].text
    BY <1>1, MarkerCalm DEF Isolated
<1>8. Q \cup {i} \subseteq Trouble(entered)
    BY DEF Isolated
<1> QED BY <1>1, <1>3, <1>5, <1>6, <1>7, <1>8 DEF Isolated, Calmed, Secrets

\* Where no scan finds anything every leaf is calm, and the other way round.
LEMMA QuietIsCalm ==
    ASSUME SkeletonInv, Mild(entered), NEW Q, Isolated(Q), Findings(request, registry) = {}
    PROVE  \A i \in DOMAIN request : Calmed(request[i].text, registry)
<1> SUFFICES ASSUME NEW i \in DOMAIN request, ~ Calmed(request[i].text, registry) PROVE FALSE
    OBVIOUS
<1> DEFINE S == {k \in DOMAIN request : /\ request[k].field # "number"
                                        /\ \/ KeyMaterial(request[k].text)
                                           \/ ScanFails(request[k].text)}
           T == {k \in DOMAIN request :
                  request[k].field # "number" /\ \E s \in Secrets(registry) : Holds(request[k].text, s)}
<1>1. i \in S \cup T
    BY FindingIsTrouble DEF Calmed
<1>2. S \in SUBSET Nat /\ T \in SUBSET Nat
    BY DEF SkeletonInv, Sane
<1>3. FirstOf(S) = {} /\ FirstOf(T) = {}
  <2>1. KeyFinding(request) = {} /\ SecretFinding(request, registry) = {}
      BY DEF Findings
  <2> QED BY <2>1 DEF KeyFinding, SecretFinding
<1> HIDE DEF S, T
<1> QED BY <1>1, <1>2, <1>3, FirstOfNothing

Torn(r, reg) ==
    {s \in Secrets(reg) : \E i, j \in DOMAIN r :
       i # j /\ Half(s) \in r[i].text /\ Half(s) \in r[j].text}

LEMMA CalmIsQuiet ==
    ASSUME NEW r, NEW reg, \A i \in DOMAIN r : Calmed(r[i].text, reg)
    PROVE  Findings(r, reg) = {} /\ Hits(r, reg) = Torn(r, reg)
<1>1. Findings(r, reg) = {}
    BY FoundIsNotCalm, FindingsAreLeaves
<1>2. \A s \in Secrets(reg), i \in DOMAIN r : ~ Holds(r[i].text, s)
    BY DEF Calmed
<1> QED BY <1>1, <1>2 DEF Hits, Torn

\* Halves are only where they were at the beginning.
LEMMA HalfIsTrouble ==
    ASSUME SkeletonInv, Mild(entered), NEW Q, Isolated(Q), NEW i \in DOMAIN request,
           NEW s \in Secret, Half(s) \in request[i].text
    PROVE  /\ i \in Trouble(entered) \ Q /\ Half(s) \in entered[i].text
           /\ i \in Branches(request, "content")
<1>1. Half(s) \in entered[i].text /\ i \in DOMAIN entered
    BY DEF Isolated, SkeletonInv, SameSkeleton
<1>2. i \in Trouble(entered)
    BY <1>1 DEF Trouble, Half
<1>3. request[i].text # {Quarantined}
    BY MarkerCalm
<1>4. entered[i].field = "content" /\ entered[i].role # "system" /\ i \notin CurrentInput(entered)
    BY <1>2 DEF Mild, InHistory
<1>5. CurrentInput(request) = CurrentInput(entered)
    BY DEF CurrentInput, SkeletonInv, SameSkeleton
<1>6. request[i].field = "content" /\ request[i].role # "system"
    BY <1>4 DEF SkeletonInv, SameSkeleton
<1> QED BY <1>1, <1>2, <1>3, <1>4, <1>5, <1>6 DEF Isolated, Branches

\* Isolating a leaf of a calm request: what is left is torn elsewhere.
TornElsewhere(r, reg, i) ==
    {s \in Hits(r, reg) : \E j, k \in DOMAIN r \ {i} :
       j # k /\ Half(s) \in r[j].text /\ Half(s) \in r[k].text}

LEMMA TrialIsCalm ==
    ASSUME NEW r, Sane(r), NEW reg, \A i \in DOMAIN r : Calmed(r[i].text, reg), NEW i \in DOMAIN r,
           NEW trial, trial = With(r, i, {Quarantined})
    PROVE  /\ Findings(trial, reg) = {} /\ Findings(r, reg) = {}
           /\ Hits(trial, reg) = TornElsewhere(r, reg, i)
<1>1. /\ DOMAIN trial = DOMAIN r /\ trial[i].text = {Quarantined}
      /\ \A j \in DOMAIN r \ {i} : trial[j].text = r[j].text
    BY WithText DEF SameSkeleton
<1>2. \A j \in DOMAIN trial : Calmed(trial[j].text, reg)
    BY <1>1, MarkerCalm
<1>3. /\ Findings(trial, reg) = {} /\ Findings(r, reg) = {}
      /\ Hits(trial, reg) = Torn(trial, reg) /\ Hits(r, reg) = Torn(r, reg)
    BY <1>2, CalmIsQuiet
<1>4. \A s : Half(s) \notin trial[i].text
    BY <1>1, MarkerCalm
<1>5. ASSUME NEW s PROVE s \in Torn(trial, reg) <=> s \in TornElsewhere(r, reg, i)
  <2>1. s \in Torn(trial, reg) <=>
          s \in Secrets(reg) /\ \E j, k \in DOMAIN r \ {i} :
            j # k /\ Half(s) \in r[j].text /\ Half(s) \in r[k].text
      BY <1>1, <1>4 DEF Torn
  <2> QED BY <1>3, <2>1 DEF TornElsewhere, Torn
<1> QED BY <1>3, <1>5 DEF Torn, TornElsewhere

LEMMA HitsFinite ==
    ASSUME NEW r, Secrets(registry) \subseteq Secret
    PROVE  IsFiniteSet(Hits(r, registry)) /\ Cardinality(Hits(r, registry)) \in Nat
<1>1. Hits(r, registry) \subseteq Secret
    BY DEF Hits
<1> QED BY <1>1, EgressAssumption, FS_Subset, FS_CardinalityType

LEMMA ThreeAreMore ==
    ASSUME NEW S, IsFiniteSet(S), NEW i \in S, NEW j \in S, NEW k \in S, i # j, i # k, j # k
    PROVE  ~ (Cardinality(S) <= 2)
<1>1. IsFiniteSet({i}) /\ Cardinality({i}) = 1 /\ j \notin {i}
    BY FS_Singleton
<1>2. IsFiniteSet({i} \cup {j}) /\ Cardinality({i} \cup {j}) = 2
  <2>1. IsFiniteSet({i} \cup {j}) /\ Cardinality({i} \cup {j}) = Cardinality({i}) + 1
      BY <1>1, FS_AddElement
  <2> QED BY <1>1, <2>1
<1>3. IsFiniteSet({i} \cup {j} \cup {k}) /\ Cardinality({i} \cup {j} \cup {k}) = 3
  <2>1. k \notin {i} \cup {j}
      OBVIOUS
  <2>2. Cardinality({i} \cup {j} \cup {k}) = Cardinality({i} \cup {j}) + 1
      BY <1>2, <2>1, FS_AddElement
  <2> QED BY <1>2, <2>2, FS_AddElement
<1>4. {i} \cup {j} \cup {k} \subseteq S
    OBVIOUS
<1>5. Cardinality({i} \cup {j} \cup {k}) <= Cardinality(S)
    BY <1>4, FS_Subset
<1>6. Cardinality(S) \in Nat
    BY FS_CardinalityType
<1>7. 3 <= Cardinality(S)
    BY <1>3, <1>5
<1> QED BY <1>6, <1>7, SMT

\* A secret that is torn in one place only is broken by isolating one of its halves.
LEMMA TornCanBreak ==
    ASSUME SkeletonInv, Mild(entered), NEW Q, Isolated(Q), Secrets(registry) \subseteq Secret,
           Findings(request, registry) = {}, Hits(request, registry) # {}
    PROVE  AggregateBranch(request, registry) # {}
<1>1. \A i \in DOMAIN request : Calmed(request[i].text, registry)
    BY QuietIsCalm
<1>2. PICK s \in Secrets(registry), i \in DOMAIN request, j \in DOMAIN request :
        i # j /\ Half(s) \in request[i].text /\ Half(s) \in request[j].text
    BY <1>1, CalmIsQuiet DEF Torn
<1>3. i \in Branches(request, "content") /\ Half(s) \in entered[i].text /\ Half(s) \in entered[j].text
    BY <1>2, HalfIsTrouble
<1> DEFINE trial == With(request, i, {Quarantined})
<1>4. /\ Findings(trial, registry) = {}
      /\ Hits(trial, registry) = TornElsewhere(request, registry, i)
    BY <1>1, TrialIsCalm DEF SkeletonInv
<1>5. s \notin Hits(trial, registry)
  <2> SUFFICES ASSUME NEW k \in DOMAIN request \ {i}, NEW l \in DOMAIN request \ {i}, k # l,
                      Half(s) \in request[k].text, Half(s) \in request[l].text
               PROVE  FALSE
      BY <1>4 DEF TornElsewhere
  <2>1. Half(s) \in entered[k].text /\ Half(s) \in entered[l].text
      BY <1>2, HalfIsTrouble
  <2> DEFINE torn == {n \in DOMAIN entered : Half(s) \in entered[n].text}
  <2>2. {i, k, l} \subseteq torn
      BY <1>3, <2>1 DEF SkeletonInv, SameSkeleton
  <2>3. IsFiniteSet(torn)
      BY FS_Subset DEF SkeletonInv, Sane
  <2>4. Cardinality(torn) <= 2
      BY <1>2 DEF Mild, TornOnce
  <2> HIDE DEF torn
  <2> QED BY <2>2, <2>3, <2>4, ThreeAreMore
<1>6. s \in Hits(request, registry)
    BY <1>2 DEF Hits
<1>7. Cardinality(Hits(trial, registry)) < Cardinality(Hits(request, registry))
  <2> DEFINE few == Hits(trial, registry)
             all == Hits(request, registry)
  <2>1. few \subseteq all /\ few # all
      BY <1>4, <1>5, <1>6 DEF TornElsewhere
  <2>2. IsFiniteSet(all) /\ Cardinality(all) \in Nat /\ Cardinality(few) \in Nat
      BY HitsFinite
  <2>4. few \in SUBSET all
      BY <2>1
  <2> HIDE DEF few, all
  <2>3. Cardinality(few) <= Cardinality(all) /\ (Cardinality(few) = Cardinality(all) => few = all)
      BY <2>2, <2>4, FS_Subset
  <2> QED BY <2>1, <2>2, <2>3 DEF few, all
<1>8. Breaks(request, registry, i)
    BY <1>4, <1>7 DEF Breaks
<1> DEFINE S == {k \in Branches(request, "content") : Breaks(request, registry, k)}
<1>9. S \in SUBSET Nat /\ S # {}
    BY <1>3, <1>8 DEF Branches, SkeletonInv, Sane
<1>10. FirstOf(S) # {}
  <2> HIDE DEF S
  <2> QED BY <1>9, FirstOfNothing
<1> QED BY <1>10 DEF AggregateBranch

\* What is isolated to break one holds a half.
LEMMA BrokenIsTrouble ==
    ASSUME SkeletonInv, Mild(entered), NEW Q, Isolated(Q), Secrets(registry) \subseteq Secret,
           Findings(request, registry) = {}, NEW i \in AggregateBranch(request, registry)
    PROVE  i \in Trouble(entered) \ Q
<1>1. \A j \in DOMAIN request : Calmed(request[j].text, registry)
    BY QuietIsCalm
<1>2. i \in DOMAIN request /\ Breaks(request, registry, i)
    BY FindingsAreLeaves DEF AggregateBranch, FirstOf
<1> DEFINE trial == With(request, i, {Quarantined})
<1>3. Hits(trial, registry) = TornElsewhere(request, registry, i)
    BY <1>1, <1>2, TrialIsCalm DEF SkeletonInv
<1>4. PICK s \in Hits(request, registry) : s \notin Hits(trial, registry)
  <2>1. Cardinality(Hits(trial, registry)) < Cardinality(Hits(request, registry))
      BY <1>2 DEF Breaks
  <2>2. Hits(trial, registry) # Hits(request, registry)
      BY <2>1, HitsFinite
  <2> QED BY <1>3, <2>2 DEF TornElsewhere
<1>5. s \in Secret
    BY <1>4 DEF Hits
<1>6. PICK k \in DOMAIN request, l \in DOMAIN request :
        k # l /\ Half(s) \in request[k].text /\ Half(s) \in request[l].text
    BY <1>1, <1>4, CalmIsQuiet DEF Torn
<1>7. k = i \/ l = i
    BY <1>3, <1>4, <1>6 DEF TornElsewhere
<1> QED BY <1>5, <1>6, <1>7, HalfIsTrouble

\* When every round is spent, every leaf of the trouble has been isolated.
LEMMA SpentIsClean ==
    ASSUME SkeletonInv, Mild(entered), NEW Q, Isolated(Q), Secrets(registry) \subseteq Secret,
           rounds = MaxRounds
    PROVE  FullyClean(request, registry)
<1>1. Q = Trouble(entered)
  <2>1. IsFiniteSet(Trouble(entered)) /\ Q \subseteq Trouble(entered)
      BY TroubleFinite DEF SkeletonInv, Isolated
  <2>2. Cardinality(Trouble(entered)) <= Cardinality(Q)
      BY DEF Mild, InHistory, Isolated
  <2>3. /\ Cardinality(Q) <= Cardinality(Trouble(entered))
        /\ Cardinality(Q) = Cardinality(Trouble(entered)) => Q = Trouble(entered)
        /\ Cardinality(Q) \in Nat /\ Cardinality(Trouble(entered)) \in Nat
      BY <2>1, FS_Subset, FS_CardinalityType
  <2> QED BY <2>2, <2>3
<1>2. \A i \in DOMAIN request : Calmed(request[i].text, registry)
    BY <1>1, FindingIsTrouble
<1>3. \A s \in Secrets(registry), i \in DOMAIN request : Half(s) \notin request[i].text
    BY <1>1, HalfIsTrouble
<1> QED BY <1>2, <1>3, CalmIsQuiet DEF FullyClean, Torn

\* One step of the preparation.
LEMMA MildPrepared ==
    ASSUME MildInv, SecondInv, SkeletonInv, Prepare
    PROVE  MildInv'
<1>1. entered' = entered /\ stage' = stage /\ version' = version
    BY DEF Prepare, RedactPrivateKeys, PrivateKeysRefused, TakeSnapshot, SnapshotFails, VariantsFail,
           RedactRegistered, RedactionRefused, Quarantine, QuarantineRefused, BreakAggregate,
           AggregateRefused, BudgetSpent, Block, Go, history, Pass
<1>2. Secrets(registry') \subseteq Secret
  <2>1. registry' = registry \/ registry' = Merged(version)
      BY DEF Prepare, RedactPrivateKeys, PrivateKeysRefused, TakeSnapshot, SnapshotFails, VariantsFail,
             RedactRegistered, RedactionRefused, Quarantine, QuarantineRefused, BreakAggregate,
             AggregateRefused, BudgetSpent, Block, Go, history, Pass
  <2> QED BY <2>1, EgressAssumption DEF MildInv
<1> SUFFICES ASSUME Mild(entered), stage # "result",
                    At("entered") \/ At("keyless") \/ At("snapshot") \/ At("recovering")
             PROVE  /\ phase' = "entered" => request' = entered
                    /\ phase' \in {"keyless", "snapshot"} => request' = Keyless(entered)
                    /\ phase' = "recovering" => (\E Q \in SUBSET Trouble(entered) : Isolated(Q))'
                    /\ phase' = "blocked" =>
                         /\ code' \notin {"CG-RESIDUAL-SECRET", "CG-REDACTION-COLLISION"}
                         /\ registry' # {} => FullyClean(request', registry')
  <2>1. At("entered") \/ At("keyless") \/ At("snapshot") \/ At("recovering")
      BY DEF Prepare, RedactPrivateKeys, PrivateKeysRefused, TakeSnapshot, SnapshotFails, VariantsFail,
             RedactRegistered, RedactionRefused, Quarantine, QuarantineRefused, BreakAggregate,
             AggregateRefused, BudgetSpent, Pass, NeedsRegistry, At
  <2> QED BY <1>1, <1>2, <2>1 DEF MildInv
<1>3. CASE At("entered")
  <2>1. request = entered /\ registry = {}
      BY <1>3 DEF MildInv, SecondInv, At
  <2>2. CASE RedactPrivateKeys
      BY <2>1, <2>2 DEF RedactPrivateKeys, Go
  <2>3. ~ PrivateKeysRefused
    <3>1. (\A i \in DOMAIN request : KeyTrouble(request[i]) = "none") /\ Collisions(Keyless(request)) = {}
        BY <2>1, MildNotRefused DEF Mild, SkeletonInv
    <3> QED BY <3>1 DEF PrivateKeysRefused, FirstOf
  <2> QED BY <1>3, <2>2, <2>3
          DEF Prepare, TakeSnapshot, SnapshotFails, VariantsFail, NeedsRegistry,
              RedactRegistered, RedactionRefused, Quarantine, QuarantineRefused, BreakAggregate,
              AggregateRefused, BudgetSpent, Pass, At
<1>4. CASE At("keyless")
  <2>1. request = Keyless(entered) /\ registry = {}
      BY <1>4 DEF MildInv, SecondInv, At
  <2>2. CASE TakeSnapshot
      BY <2>1, <2>2 DEF TakeSnapshot, Go
  <2>3. CASE SnapshotFails \/ VariantsFail
      BY <2>1, <2>3 DEF SnapshotFails, VariantsFail, Block
  <2> QED BY <1>4, <2>2, <2>3
          DEF Prepare, RedactPrivateKeys, PrivateKeysRefused,
              RedactRegistered, RedactionRefused, Quarantine, QuarantineRefused, BreakAggregate,
              AggregateRefused, BudgetSpent, Pass, At
<1>5. CASE At("snapshot")
  <2>1. request = Keyless(entered)
      BY <1>5 DEF MildInv, At
  <2>2. CASE RedactRegistered
    <3>1. request' = Rename(Redacted(request, registry)) /\ rounds' = 0 /\ registry' = registry
          /\ phase' = "recovering"
        BY <2>2 DEF RedactRegistered, Go
    <3>2. Isolated({})'
        BY <1>1, <2>1, <3>1, IsolatedStart DEF Mild
    <3>3. Trouble(entered)' = Trouble(entered')
        OBVIOUS
    <3> QED BY <3>1, <3>2
  <2>3. ~ RedactionRefused
    <3>1. \A i \in DOMAIN entered : entered[i].field \in {"model", "name", "keyword"} =>
            request[i].text = {}
        BY <2>1, MildNotRefused DEF Mild, SkeletonInv
    <3>2. \A i \in DOMAIN request : ~ ProtocolHit(request[i]) /\ ~ KeywordHit(request[i])
        BY <3>1 DEF ProtocolHit, KeywordHit, Holds, SkeletonInv, SameSkeleton
    <3> QED BY <3>2 DEF RedactionRefused
  <2> QED BY <1>5, <2>2, <2>3
          DEF Prepare, RedactPrivateKeys, PrivateKeysRefused, TakeSnapshot, SnapshotFails, VariantsFail,
              NeedsRegistry, Quarantine, QuarantineRefused, BreakAggregate,
              AggregateRefused, BudgetSpent, Pass, At
<1>6. CASE At("recovering")
  <2>1. PICK Q \in SUBSET Trouble(entered) : Isolated(Q)
      BY <1>6 DEF MildInv, At
  <2>2. Secrets(registry) \subseteq Secret
      BY DEF MildInv
  <2>3. rounds \in Nat
      BY <2>1, TroubleFinite, FS_Subset, FS_CardinalityType DEF Isolated, SkeletonInv
  <2>4. ASSUME NEW i \in DOMAIN request, i \in Trouble(entered) \ Q,
               request' = With(request, i, {Quarantined}), rounds' = rounds + 1, registry' = registry
        PROVE  (\E R \in SUBSET Trouble(entered) : Isolated(R))'
    <3>1. Isolated(Q \cup {i})'
        BY <1>1, <2>1, <2>3, <2>4, OneMoreIsolated
    <3>2. Q \cup {i} \in SUBSET Trouble(entered')
        BY <1>1, <2>4
    <3> QED BY <3>1, <3>2
  <2>5. CASE Quarantine
    <3>1. PICK i \in Findings(request, registry) : request' = With(request, i, {Quarantined})
        BY <2>5 DEF Quarantine
    <3>2. i \in DOMAIN request /\ i \in Trouble(entered) \ Q
        BY <2>1, <3>1, FoundIsRecoverable
    <3>3. rounds' = rounds + 1 /\ registry' = registry /\ phase' = "recovering"
        BY <2>5 DEF Quarantine, Go
    <3> QED BY <2>4, <3>1, <3>2, <3>3
  <2>6. CASE BreakAggregate
    <3>1. PICK i \in AggregateBranch(request, registry) : request' = With(request, i, {Quarantined})
        BY <2>6 DEF BreakAggregate
    <3>2. Findings(request, registry) = {} /\ rounds' = rounds + 1 /\ registry' = registry
          /\ phase' = "recovering"
        BY <2>6 DEF BreakAggregate, Go
    <3>3. i \in DOMAIN request /\ i \in Trouble(entered) \ Q
        BY <2>1, <2>2, <3>1, <3>2, BrokenIsTrouble, FindingsAreLeaves
    <3> QED BY <2>4, <3>1, <3>2, <3>3
  <2>7. ~ QuarantineRefused
      BY <2>1, FoundIsRecoverable DEF QuarantineRefused
  <2>8. ~ AggregateRefused
      BY <2>1, <2>2, TornCanBreak DEF AggregateRefused
  <2>9. ~ BudgetSpent
      BY <2>1, <2>2, SpentIsClean DEF BudgetSpent
  <2>10. CASE Pass
      BY <2>10 DEF Pass, Go
  <2> QED BY <1>6, <2>5, <2>6, <2>7, <2>8, <2>9, <2>10
          DEF Prepare, RedactPrivateKeys, PrivateKeysRefused, TakeSnapshot, SnapshotFails, VariantsFail,
              NeedsRegistry, RedactRegistered, RedactionRefused, At
<1> QED BY <1>3, <1>4, <1>5, <1>6

LEMMA MildInvNext ==
    ASSUME MildInv, SecondInv, CalmInv, SkeletonInv, [Next]_vars
    PROVE  MildInv'
<1>1. ASSUME NEW st, NEW r, Begin(st, r) PROVE MildInv'
  <2>1. Secrets({}) \subseteq Secret
      BY DEF Secrets
  <2> QED BY <1>1, <2>1 DEF Begin, MildInv
<1>2. CASE Call \/ Execute \/ ExecuteEdited \/ Receive
    BY <1>1, <1>2 DEF Call, Execute, ExecuteEdited, Receive
<1>3. CASE AnswerBlock
    BY <1>3 DEF AnswerBlock, MildInv, At, history
<1>4. CASE Send
    BY <1>4 DEF Send, MildInv, Go, history
<1>5. CASE MissingNext
  <2>1. /\ UNCHANGED <<request, registry, entered, version>>
        /\ phase = "passed" /\ phase' = "blocked" /\ code' = "CG-SCANNER-ERROR"
      BY <1>5 DEF MissingNext, At, history
  <2>2. FullyClean(request', registry')
      BY <2>1 DEF SecondInv
  <2> QED BY <2>1, <2>2 DEF MildInv
<1>6. CASE GuardResult \/ Withhold \/ ProgramReturns
  <2>1. stage' = "result" /\ UNCHANGED <<registry, version>>
      BY <1>6 DEF GuardResult, Withhold, ProgramReturns, Go, Block
  <2> QED BY <2>1 DEF MildInv
<1>7. CASE Rewrite \/ LookOn \/ UNCHANGED vars
  <2>1. UNCHANGED <<stage, phase, request, registry, rounds, code, entered>> /\ version' \in Version
      BY <1>7 DEF Rewrite, LookOn, vars, egressVars, callVars, history, MildInv
  <2> QED BY <2>1 DEF MildInv, Isolated
<1> QED BY MildPrepared, <1>2, <1>3, <1>4, <1>5, <1>6, <1>7
        DEF Next, Provider, Tool, ToolReturns, ToolWithheld, ProgramPasses, ProgramWithheld

\* A request whose only trouble is in few leaves of its history, with no secret torn in
\* two places, is never blocked for what it holds: what is found can be isolated, each
\* round isolates one leaf more, and the rounds suffice (_recover_residuals,
\* _try_aggregate_recovery).
THEOREM BlockedOnlyForCause == Spec => []BlockedForCause
<1>1. MildInv => BlockedForCause
    BY DEF MildInv, BlockedForCause, GaveUp, Mild
<1>2. Init => MildInv
    BY EgressAssumption DEF Init, MildInv, Secrets
<1>3. MildInv /\ SecondInv /\ CalmInv /\ SkeletonInv /\ [Next]_vars => MildInv'
    BY MildInvNext
<1> QED BY <1>1, <1>2, <1>3, SecondInvAlways, SkeletonInvAlways, PTL DEF Spec

=============================================================================
