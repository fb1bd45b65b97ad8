----------------------------- MODULE MCSideJobs -----------------------------
(* The jobs that run beside the capture of a live, each on a small instance. *)
(* They meet only through tables that each module takes as its own, so a    *)
(* behaviour picks one of them and leaves the others where they start.      *)
EXTENDS MCEventSubInbox, StreamRecords, ChannelGrant, TipsSync, ChatCollector,
        Recording, SpeechRegions

CONSTANTS y1, y2
VARIABLE part   \* the job this behaviour is of

inbox == vars
idle == <<inbox, recordVars, grantVars, tipsVars, chatVars,
          recordingVars, cutVars>>

TwoSteps == <<"vips", "subs">>
TwoSyncs == {y1, y2}

\* Handlers are interchangeable, and so are syncs.
SameActors == SameHandlers \cup Permutations(TwoSyncs)

Parts == {"inbox", "records", "grant", "tips", "chat", "recording", "regions"}

SideInit ==
  /\ part \in Parts
  /\ Init /\ (part # "inbox" => msg = [h \in Handlers |-> cheer])
  /\ RecordsInit
  /\ GrantInit /\ (part # "grant" => answers = "same")
  /\ TipsInit
  /\ ChatInit /\ (part # "chat" => partition)
  /\ RecordingInit
  /\ RegionsInit /\ (part # "regions" => spans = <<>>)

SideNext ==
  \/ /\ part = "inbox" /\ Next
     /\ UNCHANGED <<part, recordVars, grantVars, tipsVars, chatVars, recordingVars,
                    cutVars>>
  \/ /\ part = "records" /\ RecordsNext
     /\ UNCHANGED <<part, inbox, grantVars, tipsVars, chatVars, recordingVars,
                    cutVars>>
  \/ /\ part = "grant" /\ GrantNext
     /\ UNCHANGED <<part, inbox, recordVars, tipsVars, chatVars, recordingVars,
                    cutVars>>
  \/ /\ part = "tips" /\ TipsNext
     /\ UNCHANGED <<part, inbox, recordVars, grantVars, chatVars, recordingVars,
                    cutVars>>
  \/ /\ part = "chat" /\ ChatNext
     /\ UNCHANGED <<part, inbox, recordVars, grantVars, tipsVars, recordingVars,
                    cutVars>>
  \/ /\ part = "recording" /\ RecordingNext
     /\ UNCHANGED <<part, inbox, recordVars, grantVars, tipsVars, chatVars,
                    cutVars>>
  \/ /\ part = "regions" /\ RegionsNext
     /\ UNCHANGED <<part, inbox, recordVars, grantVars, tipsVars, chatVars,
                    recordingVars>>

SideSpec == SideInit /\ [][SideNext]_<<part, idle>>
=============================================================================
