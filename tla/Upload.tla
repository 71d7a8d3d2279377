------------------------------- MODULE Upload -------------------------------
(***************************************************************************)
(* One upload command against the server: SendFile and ReceiveFile over    *)
(* the wire, with connections that break, a server that is killed and      *)
(* restarted or loses power, leftovers of earlier uploads in the partial   *)
(* directory, and a source file that may change meanwhile.                 *)
(***************************************************************************)
EXTENDS SendFile

CONSTANTS MaxFaults,         \* broken connections, kills and power failures
          MaxChanges         \* changes of the source file

ASSUME UploadAssumption == {MaxFaults, MaxChanges} \subseteq Nat

VARIABLES faults, changes,
          outages            \* how many of the faults were power failures

uploadVars == <<link, c2s, s2c, sess, served, parts, dest, acked, source, cli, faults, changes, outages>>

ServerRuns == ServerStep /\ UNCHANGED <<source, cli, faults, changes, outages>>

ClientRuns == ClientStep /\ UNCHANGED serverVars /\ UNCHANGED <<faults, changes, outages>>

Fault ==
    /\ faults < MaxFaults
    /\ faults' = faults + 1
    /\ UNCHANGED changes
    /\ \/ ConnectFails /\ UNCHANGED outages /\ UNCHANGED serverVars
       \/ /\ \E c \in Conns : Break(c)
          /\ UNCHANGED outages /\ UNCHANGED serverVars /\ UNCHANGED clientVars
       \/ KillServer /\ UNCHANGED outages /\ UNCHANGED clientVars
       \/ /\ PowerMayFail /\ PowerFailure
          /\ outages' = outages + 1 /\ UNCHANGED clientVars

SourceChanges ==
    /\ changes < MaxChanges
    /\ changes' = changes + 1
    /\ source' \in Sources \ {source}
    /\ UNCHANGED <<cli, faults, outages>> /\ UNCHANGED serverVars /\ UNCHANGED wireVars

UploadInit == WireInit /\ ServerInit /\ ClientInit /\ faults = 0 /\ changes = 0 /\ outages = 0

UploadNext == ServerRuns \/ ClientRuns \/ Fault \/ SourceChanges

UploadSpec == UploadInit /\ [][UploadNext]_uploadVars

(* The client process runs, and so does every worker of the server; a worker *)
(* that waits for the destination mutex gets it when it stays free.          *)
Progress ==
    /\ WF_uploadVars(ClientRuns)
    /\ WF_uploadVars(TransferStep /\ UNCHANGED <<source, cli, faults, changes, outages>>)
    /\ \A c \in Conns :
          /\ WF_uploadVars((RefuseFirstFrame(c) \/ RejectRequest(c) \/ OpenPartial(c))
                     /\ UNCHANGED <<source, cli, faults, changes, outages>>)
          /\ WF_uploadVars(CloseServed(c) /\ UNCHANGED <<source, cli, faults, changes, outages>>)

FairSpec == UploadSpec /\ Progress
-----------------------------------------------------------------------------
(* Once send_file has reported success, the destination holds a file with   *)
(* the size and checksum that this attempt declared, and it keeps it: no    *)
(* power failure, and no session of an earlier attempt that the server is   *)
(* still working off, takes it away again.                                  *)
SuccessIsDurable ==
    cli.status = "Success" =>
        \A content \in Outcomes(dest[Path]) :
            /\ content # NoFile
            /\ Len(content) = cli.size
            /\ Crc(content) = cli.crc

(* A client whose source file does not change ends with success or with a   *)
(* transport failure: whatever partial an earlier transfer, a kill or a     *)
(* power failure left (too long, torn, of other content), resuming from it  *)
(* never makes the two sides disagree and reject the upload.                *)
StableSourceNeverRejected ==
    cli.status \in {"none", "Success", "FrameIoError"}

(* A retry never repeats what was acknowledged: without power failures the  *)
(* partial holds at least the acknowledged prefix of the source, and the    *)
(* client resumes behind it, unless the file was committed meanwhile.       *)
ResumesAcknowledged ==
    [][outages = 0 /\ ClientAt("prefix") /\ cli'.pc \in {"chunk", "complete"} =>
          \/ cli'.resumed_from >= cli.confirmed
          \/ Len(dest[Path].now) = cli.size /\ Crc(dest[Path].now) = cli.crc]_uploadVars

(* An upload of a file that does not change succeeds when no more           *)
(* connections are lost than there are retries (and the power stays on: the *)
(* client of a host that went down may never hear of it).                   *)
RecoversWithinRetries ==
    [](outages = 0) => <>[](ClientAt("done") /\ cli.status = "Success")

(* The server finishes with every connection it was given: no session holds *)
(* the destination mutex for ever.                                          *)
MutexReleased == []<>(sess = NoSession)
=============================================================================
