-------------------------- MODULE ProductionService --------------------------
(***************************************************************************)
(* The permanent service: the release files it is configured by, the       *)
(* systemd unit, the strict launcher it runs and the one named container.  *)
(*                                                                         *)
(* The launcher (run-server.sh, run-server-exl3.py) reads four files one   *)
(* after another and refuses to launch unless they name one release; the   *)
(* unit has Restart=on-failure and no start limit, so a refusal is tried   *)
(* again for ever.  Only the release a file belongs to matters here: "old" *)
(* and "new", "torn" for a file whose rewriting was cut short, "absent"    *)
(* for a .env that does not exist.                                         *)
(***************************************************************************)
EXTENDS Naturals, Sequences

CONSTANTS MaxStuck,    \* bound on stops that leave the container running
          MaxCrashes   \* bound on crashes of the serving process

Releases == {"old", "new"}
Contents == Releases \cup {"torn", "absent"}
ReadOrder == <<"env", "policy", "sha", "image">>
Files == {"env", "policy", "sha", "image"}

None == [image |-> "none", id |-> 0]

VARIABLES
    files,       \* what is on disk
    tagged,      \* the production tag of the new release exists
    unit,        \* inactive, starting (launcher running), up, cooldown
    seen,        \* what the launcher has read so far, in ReadOrder
    container,   \* the container named b70-qwen38-vllm
    made,        \* containers created so far
    stuck, crashes

serviceVars == <<unit, seen, container, made, stuck, crashes>>

(***************************************************************************)
(* Every key of the profile may be missing from the environment, so a .env *)
(* that is absent overrides nothing; a torn one may still set a wrong key. *)
(***************************************************************************)
EnvMayFit(e, r) == e = r \/ e \notin Releases

Consistent(env, policy, sha, image) ==
    /\ policy \in Releases /\ sha = policy /\ image = policy
    /\ EnvMayFit(env, image)
    /\ image = "new" => tagged

SeenAll == Len(seen) = Len(ReadOrder)
SeenConsistent == SeenAll /\ Consistent(seen[1], seen[2], seen[3], seen[4])
FilesConsistent ==
    Consistent(files["env"], files["policy"], files["sha"], files["image"])

Serving(image) == container # None /\ container.image = image

ServiceInit ==
    /\ files \in {[f \in Files |-> IF f = "env" THEN e ELSE "old"] : e \in {"old", "absent"}}
    /\ tagged = FALSE
    /\ unit = "up" /\ seen = <<>>
    /\ container = [image |-> "old", id |-> 1] /\ made = 1
    /\ stuck = 0 /\ crashes = 0

ReadFile ==
    /\ unit = "starting" /\ ~SeenAll
    /\ seen' = Append(seen, files[ReadOrder[Len(seen) + 1]])
    /\ UNCHANGED <<files, tagged, unit, container, made, stuck, crashes>>

\* execvp of `docker run --name`, by image_id rather than by tag.
Launch ==
    /\ unit = "starting" /\ SeenConsistent /\ container = None
    /\ container' = [image |-> seen[4], id |-> made + 1]
    /\ made' = made + 1
    /\ unit' = "up" /\ seen' = <<>>
    /\ UNCHANGED <<files, tagged, stuck, crashes>>

\* A failed assertion, or docker's refusal of a name that is taken.
Refuse ==
    /\ unit = "starting" /\ SeenAll
    /\ ~SeenConsistent \/ container # None \/ seen[1] = "torn"
    /\ unit' = "cooldown" /\ seen' = <<>>
    /\ UNCHANGED <<files, tagged, container, made, stuck, crashes>>

AutoRestart ==
    /\ unit = "cooldown"
    /\ unit' = "starting"
    /\ UNCHANGED <<files, tagged, seen, container, made, stuck, crashes>>

Crash ==
    /\ unit = "up" /\ crashes < MaxCrashes
    /\ container' = None /\ unit' = "cooldown" /\ crashes' = crashes + 1
    /\ UNCHANGED <<files, tagged, seen, made, stuck>>

(***************************************************************************)
(* systemctl stop: ExecStop runs `docker stop` only for a unit whose main  *)
(* process lives, and its failure is ignored, so a container may outlive   *)
(* the unit.  A unit waiting for its automatic restart just ends.          *)
(***************************************************************************)
SystemctlStop ==
    /\ unit' = "inactive" /\ seen' = <<>>
    /\ \/ /\ container' = (IF unit \in {"starting", "up"} THEN None ELSE container)
          /\ UNCHANGED stuck
       \/ /\ unit = "up" /\ container # None /\ stuck < MaxStuck
          /\ stuck' = stuck + 1
          /\ UNCHANGED container
    /\ UNCHANGED <<made, crashes>>

\* A start of a unit that is already active changes nothing.
SystemctlStart ==
    /\ unit' = (IF unit \in {"inactive", "cooldown"} THEN "starting" ELSE unit)
    /\ UNCHANGED <<seen, container, made, stuck, crashes>>

\* Power loss: the unit is WantedBy=default.target and starts at boot.
Boot ==
    /\ unit' = "starting" /\ seen' = <<>> /\ container' = None
    /\ UNCHANGED <<made, stuck, crashes>>

\* What systemd and the launcher do by themselves.
LauncherNext == ReadFile \/ Launch \/ Refuse \/ AutoRestart
ServiceNext == LauncherNext \/ Crash

ServiceTypeOK ==
    /\ files \in [Files -> Contents]
    /\ tagged \in BOOLEAN
    /\ unit \in {"inactive", "starting", "up", "cooldown"}
    /\ seen \in Seq(Contents) /\ Len(seen) <= Len(ReadOrder)
    /\ container \in [image : Releases \cup {"none"}, id : Nat]
    /\ made \in Nat /\ stuck \in Nat /\ crashes \in Nat
==============================================================================
