------------------------------- MODULE Support ------------------------------
(***************************************************************************)
(* Files, profiles, assets and follow-up together: the tables of one       *)
(* database, the calls of one server.  Assets and steps need the files     *)
(* that Profiles announces; conversations need the administrators whose    *)
(* roles it changes.                                                       *)
(***************************************************************************)
EXTENDS Assets, Followup

ASSUME SupportAssumption ==
    AssetCalls \cap (StepCalls \cup OpenCalls \cup TalkCalls) = {}

vars == <<profileVars, assetVars, followupVars, pc>>

Init == ProfilesInit /\ AssetsInit /\ FollowupInit

Next ==
    \/ ProfilesNext /\ UNCHANGED <<assetVars, followupVars>>
    \/ AssetsNext /\ UNCHANGED <<profileVars, followupVars>>
    \/ FollowupNext /\ UNCHANGED <<profileVars, assetVars>>

Spec == Init /\ [][Next]_vars
-----------------------------------------------------------------------------
PC == {"unmade", "new", "done", "failed", "sign", "mark", "avatar", "write", "hash",
       "images", "documents", "commit", "insert", "choose", "admin", "upsert", "scope", "say"}

\* The shape of the state.
TypeOK == ProfilesTypeOK /\ AssetsTypeOK /\ FollowupTypeOK /\ pc \in [Calls -> PC]
=============================================================================
