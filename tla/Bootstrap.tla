----------------------------- MODULE Bootstrap -----------------------------
(***************************************************************************)
(* POST bootstrap of the control plane for one user: profile, workspace,   *)
(* membership and audit event are found or created by saves of their own,  *)
(* with no transaction (cloudpod/pb_hooks/leaguepilot.pb.js).  Several     *)
(* calls overlap: the dashboard and the MCP gateway each make one whenever *)
(* they like.  Unique indexes refuse a second profile of the user and a    *)
(* second workspace with the user's slug; the call then ends with an       *)
(* error.                                                                  *)
(***************************************************************************)
EXTENDS Naturals

CONSTANTS BootCalls   \* calls of one user

VARIABLES
    profile,     \* the profiles row exists
    workspace,   \* the workspaces row exists
    membership,  \* the workspace_memberships row exists
    bootCall,    \* stage of each call, and whether it had found each row at its start
    cutShort     \* CloudPod has stopped during a call

bootVars == <<profile, workspace, membership, bootCall, cutShort>>

BootStage == {"new", "profile", "workspace", "membership", "answered", "failed"}
BootCall  == [stage : BootStage, sawProfile : BOOLEAN, sawWorkspace : BOOLEAN]

BootInit ==
    /\ profile = FALSE /\ workspace = FALSE /\ membership = FALSE /\ cutShort = FALSE
    /\ bootCall = [b \in BootCalls |->
                     [stage |-> "new", sawProfile |-> FALSE, sawWorkspace |-> FALSE]]

GoTo(b, stage) == bootCall' = [bootCall EXCEPT ![b].stage = stage]

\* Both rows are looked up before anything is saved.
BootReads(b) ==
    /\ bootCall[b].stage = "new"
    /\ bootCall' = [bootCall EXCEPT ![b] = [stage |-> "profile", sawProfile |-> profile,
                                            sawWorkspace |-> workspace]]
    /\ UNCHANGED <<profile, workspace, membership, cutShort>>

\* A profile that was found is left alone; saving one that has come up since fails.
BootProfile(b) ==
    /\ bootCall[b].stage = "profile"
    /\ GoTo(b, IF ~bootCall[b].sawProfile /\ profile THEN "failed" ELSE "workspace")
    /\ profile' = TRUE
    /\ UNCHANGED <<workspace, membership, cutShort>>

\* A workspace that was found ends the call.
BootWorkspace(b) ==
    /\ bootCall[b].stage = "workspace"
    /\ GoTo(b, IF bootCall[b].sawWorkspace THEN "answered"
               ELSE IF workspace THEN "failed" ELSE "membership")
    /\ workspace' = TRUE
    /\ UNCHANGED <<profile, membership, cutShort>>

\* Mutant: the membership is saved only along with the profile.
BootMembershipOfNew(b) ==
    /\ bootCall[b].stage = "membership"
    /\ GoTo(b, "answered")
    /\ membership' = (membership \/ ~bootCall[b].sawProfile)
    /\ UNCHANGED <<profile, workspace, cutShort>>

BootMembership(b) ==
    /\ bootCall[b].stage = "membership"
    /\ GoTo(b, "answered")
    /\ membership' = TRUE
    /\ UNCHANGED <<profile, workspace, cutShort>>

\* CloudPod stops: every call under way is lost.
BootCrash ==
    /\ \E b \in BootCalls : bootCall[b].stage \in {"profile", "workspace", "membership"}
    /\ cutShort' = TRUE
    /\ bootCall' = [b \in BootCalls |->
                      IF bootCall[b].stage \in {"new", "answered"} THEN bootCall[b]
                      ELSE [bootCall[b] EXCEPT !.stage = "failed"]]
    /\ UNCHANGED <<profile, workspace, membership>>

BootNext ==
    \/ \E b \in BootCalls :
          BootReads(b) \/ BootProfile(b) \/ BootWorkspace(b) \/ BootMembership(b)
    \/ BootCrash

BootSpec == BootInit /\ [][BootNext]_bootVars

\* What a call that was answered promises, and its one exception: the workspace has its
\* membership, unless another call is about to save it or was cut short before it could.
\* No later call repairs the latter.
AnsweredIsComplete ==
    (\E b \in BootCalls : bootCall[b].stage = "answered") =>
        /\ profile /\ workspace
        /\ membership \/ cutShort \/ \E b \in BootCalls : bootCall[b].stage = "membership"
=============================================================================
