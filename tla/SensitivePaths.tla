--------------------------- MODULE SensitivePaths ---------------------------
(***************************************************************************)
(* Which paths are protected (sensitive_paths.py): pure operators over a   *)
(* file system with links.                                                 *)
(*                                                                         *)
(* A path is a member of Path, as a tool spells it once "~" and $HOME are  *)
(* expanded; two paths may lead to one file.  Above[p] are the lexical     *)
(* parents of p, and p; Real[p] is what os.path.realpath makes of it,      *)
(* Name[p] its last component.  The rules are about spellings as well as   *)
(* about where a path really leads, and every one of them looks at         *)
(* another mixture of the two.                                             *)
(*                                                                         *)
(* A definition marked "mutant" is not part of the model: it is a wrong    *)
(* version of the definition below it, kept to test the properties.        *)
(***************************************************************************)
EXTENDS FiniteSets

CONSTANTS
    Path, Above, Real, Name,
    Home, Ssh,        \* the home directory and its .ssh
    Profile,          \* the profile that the plugin is installed in
    Package,          \* the directory of the installed package
    Exists,           \* paths that lead to something
    KeyName,          \* config, authorized_keys, known_hosts*, id_* but not *.pub
    PublicName,       \* *.pub
    KeyDir,           \* "ssh_key"
    PluginsDir,       \* "plugins", where a profile has its plugins
    StoreDir,         \* "credential-guard", where a profile has the store
    StoreName         \* the store's files, their backups and .cg-migrate*

\* The file system: realpath leads to a place with no links in it, where the
\* spelling is the place; the parents of a path form a chain without a cycle.
ASSUME FileSystem ==
    /\ Real \in [Path -> Path]
    /\ Above \in [Path -> SUBSET Path]
    /\ {Home, Ssh, Profile, Package} \subseteq Path
    /\ \A p \in Path : Real[Real[p]] = Real[p] /\ p \in Above[p]
    /\ \A p \in Path : \A q, r \in Above[p] : q \in Above[r] \/ r \in Above[q]
    /\ \A p, q \in Path : p \in Above[q] /\ q \in Above[p] => p = q
    /\ \A p \in Path : \A q \in Above[Real[p]] : Real[q] = q
    /\ \A f \in Exists, p \in Path : Real[p] \in Above[Real[f]] => p \in Exists

\* The parents of a path are its own and those of its parent.
ChildOf(p, q) == p # q /\ Above[p] = Above[q] \cup {p}

\* _is_under
IsUnder(p, q) == Real[q] \in Above[Real[p]]

\* The layout of an installation: <profile>/plugins/<plugin>/<package>.
ASSUME Installed ==
    \E plugins, plugin \in Path :
        /\ ChildOf(plugins, Profile) /\ Name[plugins] = PluginsDir
        /\ ChildOf(plugin, plugins) /\ Name[plugin] # PluginsDir
        /\ ChildOf(Real[Package], plugin)

-----------------------------------------------------------------------------
(* The store (store_location.py).                                          *)

\* _profile_root_from: the nearest directory of plugins above the package.
Anchors == {a \in Above[Real[Package]] \ {Real[Package]} : Name[a] = PluginsDir}
OuterAnchor == {a \in Anchors : \A b \in Anchors : a \in Above[b]}  \* mutant
NearestAnchor == {a \in Anchors : \A b \in Anchors : b \in Above[a]}

\* resolve_store_dir: {} if it cannot be derived.
StoreOf(root) == {s \in Path : ChildOf(s, root) /\ Name[s] = StoreDir}
Store == UNION {StoreOf(root) : root \in {r \in Path : \E a \in NearestAnchor : ChildOf(a, r)}}

StoreNamed(p) == Name[p] \in StoreName

\* The same name in the store leads to the same place, or the path does.
InStore(p, dir) ==
    \/ \E e \in Path : ChildOf(e, dir) /\ Name[e] = Name[p] /\ Real[e] = Real[p]
    \/ IsUnder(p, dir)

\* _store_file_is_protected
StoreFileProtected(p) ==
    LET check == IF StoreNamed(p) THEN p ELSE Real[p]
    IN  IF Store = {} THEN StoreNamed(check)
        ELSE \E dir \in Store :
               IF StoreNamed(check) THEN InStore(check, dir) ELSE IsUnder(p, dir)

-----------------------------------------------------------------------------
(* The keys.                                                               *)

\* _path_looks_like_ssh_child
SpelledUnderSsh(p) == Ssh \in Above[p]

\* The first component below .ssh, links followed, is ssh_key.
BelowKeyDir(p) ==
    \E d \in Above[Real[p]] : Name[d] = KeyDir /\ ChildOf(d, Real[Ssh])

\* _ssh_basename_is_protected
KeyNamed(p) == Name[p] \in KeyName

InSsh(p) == IsUnder(p, Ssh) \/ SpelledUnderSsh(p)

\* A public key below ssh_key ends the question, wherever the link leads.
PublicKeyEnds(p) ==
    InSsh(p) /\ ~ KeyNamed(p) /\ BelowKeyDir(p) /\ Name[p] \in PublicName

SshNamed(p) ==
    /\ InSsh(p)
    /\ \/ KeyNamed(p)
       \/ /\ Name[p] \notin PublicName
          /\ BelowKeyDir(p) \/ \E d \in Above[p] : Name[d] = KeyDir

\* _ssh_file_is_protected
SshFileProtected(p) ==
    \/ SshNamed(p)
    \/ /\ ~ PublicKeyEnds(p)
       /\ Real[p] # p
       /\ SshNamed(Real[p]) \/ StoreFileProtected(Real[p])

\* path_is_protected: the path as it is spelled, then the place it leads to.
PathProtectedAsSpelled(p) == StoreFileProtected(p) \/ SshFileProtected(p)  \* mutant
PathProtected(p) ==
    \/ StoreFileProtected(p) \/ SshFileProtected(p)
    \/ StoreFileProtected(Real[p]) \/ SshFileProtected(Real[p])

\* search_path_is_protected: a root is protected with what lies above it, too.
SearchProtected(p) ==
    \/ PathProtected(p)
    \/ InSsh(p) \/ p = Ssh
    \/ Ssh \in Exists /\ IsUnder(Ssh, p)
    \/ IsUnder(Home, p) \/ p = Home
    \/ \E dir \in Store : \/ dir \in Exists /\ IsUnder(dir, p)
                          \/ p = dir \/ IsUnder(p, dir)

-----------------------------------------------------------------------------
(* What all this is for: the files themselves, by the place they are in.   *)

\* A file of the store, a private key or another private file of OpenSSH.
Sensitive(f) ==
    \/ \E dir \in StoreOf(Profile) : Real[dir] \in Above[f]
    \/ /\ Real[Ssh] \in Above[f]
       /\ \/ Name[f] \in KeyName
          \/ /\ Name[f] \notin PublicName
             /\ \E d \in Above[f] : Name[d] = KeyDir /\ ChildOf(d, Real[Ssh])

\* The files that reading a path, or searching below it, looks into.
ReadFrom(p) == {Real[p]}
SearchedFrom(p) == {f \in Path \cap Exists : Real[f] = f /\ Real[p] \in Above[f]}

=============================================================================
