---------------------------- MODULE DevKeygen ----------------------------
(***************************************************************************)
(* cmd/devkeygen: run() makes an RSA pair and leaves it in two files of one *)
(* directory, while any step may fail, the process may be killed and other  *)
(* runs may be under way in the same directory.                             *)
(*                                                                          *)
(* A run stands for the key it makes.  An os.WriteFile is an open that      *)
(* truncates, then a write.  File modes and the messages are left out; so   *)
(* is what a shorter file leaves of a longer one behind it, which           *)
(* pem.Decode does not read.                                                *)
(***************************************************************************)
EXTENDS FiniteSets

CONSTANTS
    Runs,       \* invocations of devkeygen with one -out
    OldKey      \* a key made before

ASSUME DevKeygenAssumption == OldKey \notin Runs

Absent == <<"absent">>
Empty == <<"empty">>
Part == <<"part">>              \* of no use to keystore.loadFromFile
Whole(k) == <<"whole", k>>

VARIABLES
    files,      \* the contents of signing.pem and signing.pub.pem
    stage,      \* what a run does next, or how it ended
    path,       \* the file it is at
    force,      \* whether it was given -force
    before,     \* history: the files there were when it began
    apart       \* history: nobody else changed a file since it began

vars == <<files, stage, path, force, before, apart>>

Ended == {"idle", "ok", "error", "killed"}
Underway(r) == stage[r] \notin Ended

Init ==
    /\ files \in [{"priv", "pub"} -> {Absent, Empty, Part, Whole(OldKey)}]
    /\ stage = [r \in Runs |-> "idle"]
    /\ path = [r \in Runs |-> "priv"]
    /\ force \in [Runs -> BOOLEAN]
    /\ before = [r \in Runs |-> {}]
    /\ apart = [r \in Runs |-> TRUE]

At(r, s) == stage[r] = s
Reach(r, s) == stage' = [stage EXCEPT ![r] = s]
Fail(r) == Reach(r, "error")

\* A step of a run that leaves the files alone.
Quiet == UNCHANGED <<files, force, before, apart>>

\* A step that changes the file a run is at.
Put(r, content) ==
    /\ files' = [files EXCEPT ![path[r]] = content]
    /\ apart' = [q \in Runs |-> apart[q] /\ (q = r \/ At(q, "idle"))]
    /\ UNCHANGED <<path, force, before>>

\* run(): the flags are read.
Begin(r) ==
    /\ At(r, "idle")
    /\ Reach(r, "mkdir")
    /\ before' = [before EXCEPT ![r] = {f \in DOMAIN files : files[f] # Absent}]
    /\ UNCHANGED <<files, path, force, apart>>

\* generate(): an empty -out is refused, or the directory made.
MkdirAll(r) ==
    /\ At(r, "mkdir")
    /\ Reach(r, IF force[r] THEN "generate" ELSE "stat") \/ Fail(r)
    /\ UNCHANGED path /\ Quiet

\* Mutant: only the private key is looked for.
StatPrivateOnly(r) ==
    /\ At(r, "stat")
    /\ UNCHANGED path /\ Quiet
    /\ Fail(r) \/ (files["priv"] = Absent /\ Reach(r, "generate"))

\* Mutant: the path that was looked at last is the one written.
StatKeepsPath(r) ==
    /\ At(r, "stat")
    /\ Quiet
    /\ \/ Fail(r) /\ UNCHANGED path
       \/ /\ files[path[r]] = Absent
          /\ path' = [path EXCEPT ![r] = "pub"]
          /\ IF path[r] = "priv" THEN UNCHANGED stage ELSE Reach(r, "generate")

\* Without -force: no file may be there, and os.Stat may fail otherwise.
Stat(r) ==
    /\ At(r, "stat")
    /\ Quiet
    /\ \/ Fail(r) /\ UNCHANGED path
       \/ /\ files[path[r]] = Absent
          /\ IF path[r] = "priv"
             THEN path' = [path EXCEPT ![r] = "pub"] /\ UNCHANGED stage
             ELSE path' = [path EXCEPT ![r] = "priv"] /\ Reach(r, "generate")

\* The key is made and encoded.
GenerateKey(r) ==
    /\ At(r, "generate")
    /\ Reach(r, "open") \/ Fail(r)
    /\ UNCHANGED path /\ Quiet

\* os.WriteFile: O_CREATE and O_TRUNC.
Open(r) ==
    /\ At(r, "open")
    /\ \/ Reach(r, "write") /\ Put(r, Empty)
       \/ Fail(r) /\ UNCHANGED path /\ Quiet

\* Mutant: the error of a write is not looked at.
WriteUnchecked(r) ==
    /\ At(r, "write")
    /\ Reach(r, "chmod")
    /\ \E c \in {files[path[r]], Part, Whole(r)} : Put(r, c)

\* os.WriteFile: all is written, or an error comes before, amid or, from Close,
\* after it.
Write(r) ==
    /\ At(r, "write")
    /\ \/ Reach(r, "chmod") /\ Put(r, Whole(r))
       \/ Fail(r) /\ \E c \in {files[path[r]], Part, Whole(r)} : Put(r, c)

\* writeFileMode's os.Chmod; then the public key's turn, or the end.
Chmod(r) ==
    /\ At(r, "chmod")
    /\ Quiet
    /\ \/ Fail(r) /\ UNCHANGED path
       \/ path[r] = "priv" /\ Reach(r, "open") /\ path' = [path EXCEPT ![r] = "pub"]
       \/ path[r] = "pub" /\ Reach(r, "ok") /\ UNCHANGED path

\* The process is killed, perhaps amid a write.
Kill(r) ==
    /\ Underway(r)
    /\ Reach(r, "killed")
    /\ \/ UNCHANGED path /\ Quiet
       \/ At(r, "write") /\ Put(r, Part)

\* Someone tidies up, while no run is under way.
Remove(f) ==
    /\ files[f] # Absent
    /\ \A r \in Runs : ~Underway(r)
    /\ files' = [files EXCEPT ![f] = Absent]
    /\ apart' = [r \in Runs |-> apart[r] /\ At(r, "idle")]
    /\ UNCHANGED <<stage, path, force, before>>

Next ==
    \/ \E r \in Runs :
          \/ Begin(r) \/ MkdirAll(r) \/ Stat(r) \/ GenerateKey(r)
          \/ Open(r) \/ Write(r) \/ Chmod(r) \/ Kill(r)
    \/ \E f \in DOMAIN files : Remove(f)

Spec == Init /\ [][Next]_vars

--------------------------------------------------------------------------
(* Properties.                                                              *)

(* The variables stay in their types, and a run that is past the private key
   has left a file for it: nothing but a run is under way takes it away. *)
TypeOK ==
    /\ files \in [{"priv", "pub"} -> {Absent, Empty, Part} \cup {Whole(k) : k \in Runs \cup {OldKey}}]
    /\ stage \in [Runs -> Ended \cup {"mkdir", "stat", "generate", "open", "write", "chmod"}]
    /\ path \in [Runs -> {"priv", "pub"}]
    /\ force \in [Runs -> BOOLEAN]
    /\ before \in [Runs -> SUBSET {"priv", "pub"}]
    /\ apart \in [Runs -> BOOLEAN]
    /\ \A r \in Runs :
          path[r] = "pub" /\ stage[r] \in {"open", "write", "chmod"} => files["priv"] # Absent

(* F-14: a run without -force never changes a file that was there when it
   began, even a useless one and whichever of the two it is, and whatever fails
   or runs beside it.  (A file that another run makes after the check is not
   safe: the check and the open are two steps.) *)
ExistingFilesKept ==
    [][\A r \in Runs :
          ~force[r] /\ stage'[r] # stage[r]
              => \A f \in before[r] : files'[f] = files[f]]_vars

(* A run that exits with 0 and had the directory to itself leaves both halves of
   its one key, in full, whatever earlier runs that failed or were killed had
   left there. *)
SuccessMeansPair ==
    \A r \in Runs : At(r, "ok") /\ apart[r] =>
        files = [f \in {"priv", "pub"} |-> Whole(r)]

==========================================================================
