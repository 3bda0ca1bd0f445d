-------------------------- MODULE TouchpadReports --------------------------
(***************************************************************************)
(* From Apple trackpad frames to Precision Touchpad reports                *)
(* (apple-input: apple_trackpad_frame.c, apple_precision_touchpad.c,       *)
(* AiTransportProcessTrackpadReport of transport.c, vhf_trackpad.c).       *)
(*                                                                         *)
(* A frame lists where fingers are; the tracker matches them with the      *)
(* fingers of the last frame, gives the admitted ones a contact identifier *)
(* and lists what went down, stayed or was lifted.  The transport worker   *)
(* then encodes a report for Windows unless Windows asked for another      *)
(* input mode.  Windows changes mode and surface switch from a thread of   *)
(* its own, between any two steps of the worker.                           *)
(*                                                                         *)
(* A position is one coordinate and the button is left out.  windows_id    *)
(* and position of a slot that is not active are never read and are reset. *)
(***************************************************************************)
EXTENDS Integers, Sequences, SequencesExt, MinimumAssignment

CONSTANTS
    MaxContacts,     \* AI_APPLE_TRACKPAD_MAX_CONTACTS
    PtpMaxContacts,  \* AI_PTP_MAX_CONTACTS
    Positions,       \* where fingers can be
    FailureLimit     \* AI_TRACKPAD_VHF_FAILURE_LIMIT

ASSUME LimitsAssumption == PtpMaxContacts \in 1 .. MaxContacts /\ FailureLimit \in Nat \ {0}

VARIABLES
    slots,        \* TrackpadTracker.slots
    frame,        \* the frame the worker is processing: positions
    match,        \* new_to_old of minimum_assignment
    out,          \* the output frame: contacts with identifier and tip
    features,     \* TrackpadVhf.Features
    snapshot,     \* the worker's copy of the features
    neutral,      \* the worker's neutral_required
    ContactsActive,
    NeutralRequired,
    Running,      \* TrackpadVhf.Running
    Failures,     \* TrackpadConsecutiveSubmissionFailures
    pc,           \* the transport worker
    visible,      \* the contacts Windows believes to be down
    lost          \* a report that changed contacts was not accepted

vars == <<slots, frame, match, out, features, snapshot, neutral, ContactsActive,
          NeutralRequired, Running, Failures, pc, visible, lost>>

Ids == 0 .. PtpMaxContacts - 1
Slots == 1 .. MaxContacts
NoSlot == [active |-> FALSE, admitted |-> FALSE, id |-> 0, x |-> 0]
InitialFeatures == [mode |-> 0, pending |-> 0, change |-> FALSE, neutral |-> FALSE,
                    surface |-> TRUE]
Frames == {s \in UNION {[1 .. n -> Positions] : n \in 0 .. MaxContacts} :
             \A i, j \in DOMAIN s : i # j => s[i] # s[j]}
Active == {i \in Slots : slots[i].active}
Down == {slots[i].id : i \in {j \in Active : slots[j].admitted}}

Init ==
    /\ slots = [i \in Slots |-> NoSlot]
    /\ frame = <<>> /\ match = <<>> /\ out = <<>>
    /\ features = InitialFeatures /\ snapshot = InitialFeatures
    /\ neutral = FALSE /\ ContactsActive = FALSE /\ NeutralRequired = FALSE
    /\ Running = FALSE /\ Failures = 0
    /\ pc = "idle" /\ visible = {} /\ lost = FALSE

-----------------------------------------------------------------------------
\* The transport starts (the tracker is cleared) and the device reports that
\* its trackpad is ready: the touchpad is published with fresh features.
AiTrackpadVhfStart ==
    /\ pc = "idle" /\ ~Running
    /\ slots' = [i \in Slots |-> NoSlot]
    /\ features' = InitialFeatures
    /\ ContactsActive' = FALSE /\ NeutralRequired' = FALSE
    /\ Running' = TRUE /\ Failures' = 0
    /\ UNCHANGED <<frame, match, out, snapshot, neutral, pc, visible, lost>>

\* The touchpad goes away, and with it what Windows remembers of it.  The
\* neutral report of an orderly stop changes nothing that deletion does not.
AiTrackpadVhfStop == Running' = FALSE /\ visible' = {} /\ lost' = FALSE

AiVhfFrontendStop ==
    /\ pc = "idle" /\ Running /\ AiTrackpadVhfStop
    /\ UNCHANGED <<slots, frame, match, out, features, snapshot, neutral,
                   ContactsActive, NeutralRequired, Failures, pc>>

-----------------------------------------------------------------------------
\* coordinate_cost, and the slots that hold a finger in the order the tracker
\* lists them.
coordinate_cost(slot, x) == (slots[slot].x - x) * (slots[slot].x - x)
OldSlots == SetToSortSeq(Active, <)

\* The matrix of the assignment: the shorter of old and new as rows.
RowsAreOld(new) == Len(OldSlots) <= Len(new)
CostMatrix(new) ==
    IF RowsAreOld(new)
    THEN [i \in 1 .. Len(OldSlots) |->
            [j \in 1 .. Len(new) |-> coordinate_cost(OldSlots[i], new[j])]]
    ELSE [i \in 1 .. Len(new) |->
            [j \in 1 .. Len(OldSlots) |-> coordinate_cost(OldSlots[j], new[i])]]
Shorter(new) == Min({Len(OldSlots), Len(new)})
Longer(new) == Max({Len(OldSlots), Len(new)})

\* A slip: fingers are matched in the order they are listed.
AssignmentFirst(new) ==
    [j \in 1 .. Len(new) |-> IF j <= Len(OldSlots) THEN OldSlots[j] ELSE 0]

\* The old slot of each finger of the frame, 0 for none.
Assignment(new) ==
    LET p == minimum_assignment(CostMatrix(new), Shorter(new), Longer(new))
        row(j) == IF p[j] = 0 THEN 0 ELSE OldSlots[p[j]]
        column(i) == {j \in DOMAIN p : p[j] = i}
    IN  IF RowsAreOld(new) THEN [j \in 1 .. Len(new) |-> row(j)]
        ELSE [i \in 1 .. Len(new) |-> OldSlots[CHOOSE j \in column(i) : TRUE]]

\* A valid report of the trackpad while it is published; the rest is counted
\* and dropped.  The worker holds TransportLock until it has submitted.
ProcessTrackpadReport(new) ==
    /\ pc = "idle" /\ Running
    /\ frame' = new /\ match' = Assignment(new) /\ pc' = "matched"
    /\ UNCHANGED <<slots, out, features, snapshot, neutral, ContactsActive,
                   NeutralRequired, Running, Failures, visible, lost>>

\* A slip: only the identifiers given out in this frame are marked as used.
IdsUnmarked == Ids

\* The identifiers a new finger may get: those no finger of the last frame has
\* (id_available_before).
IdsAvailable == Ids \ Down

\* The least identifiers and slots for the new fingers, in frame order.
NewFingers == SelectSeq([j \in 1 .. Len(frame) |-> j], LAMBDA j : match[j] = 0)
Kept == {match[j] : j \in DOMAIN match} \ {0}
FreeSlots == SetToSortSeq(Slots \ Kept, <)
AdmittedSlot(n) ==
    LET ids == SetToSortSeq(IdsAvailable, <)
    IN  [active |-> TRUE, admitted |-> n <= Len(ids),
         id |-> IF n <= Len(ids) THEN ids[n] ELSE 0, x |-> frame[NewFingers[n]]]

\* ai_trackpad_tracker_update after the assignment: matched fingers move,
\* unmatched slots are lifted, new fingers take slots and identifiers; the
\* output is sorted by identifier.
TrackedSlots ==
    [i \in Slots |->
        IF i \in Kept
        THEN [slots[i] EXCEPT !.x = frame[CHOOSE j \in DOMAIN match : match[j] = i]]
        ELSE LET n == {k \in DOMAIN NewFingers : FreeSlots[k] = i}
             IN  IF n = {} THEN NoSlot ELSE AdmittedSlot(CHOOSE k \in n : TRUE)]
Contact(slot, tip) == [id |-> slot.id, tip |-> tip]
Admitted(i) == slots[i].admitted
OutputFrame ==
    LET old == [n \in DOMAIN OldSlots |-> OldSlots[n]]
        kept == [n \in DOMAIN old |-> Contact(slots[old[n]], old[n] \in Kept)]
        reported == SelectSeq([n \in DOMAIN old |-> n], LAMBDA n : Admitted(old[n]))
        new == SelectSeq([n \in DOMAIN NewFingers |-> AdmittedSlot(n)],
                         LAMBDA slot : slot.admitted)
    IN  SortSeq([n \in DOMAIN reported |-> kept[reported[n]]]
                  \o [n \in DOMAIN new |-> Contact(new[n], TRUE)],
                LAMBDA a, b : a.id < b.id)

ai_trackpad_tracker_update ==
    /\ pc = "matched"
    /\ slots' = TrackedSlots /\ out' = OutputFrame /\ pc' = "tracked"
    /\ UNCHANGED <<frame, match, features, snapshot, neutral, ContactsActive,
                   NeutralRequired, Running, Failures, visible, lost>>

Tips(contacts) == {c.id : c \in {e \in Range(contacts) : e.tip}}

-----------------------------------------------------------------------------
\* A pending change of mode waits until the last finger is lifted.
ai_ptp_feature_contacts_update(f, active) ==
    IF f.change /\ ~active
    THEN [f EXCEPT !.mode = f.pending, !.change = FALSE, !.neutral = FALSE] ELSE f

\* Under FeatureLock: record whether fingers are down, copy the features and
\* take the two marks that ask for a neutral report.
TakeFeatures ==
    /\ pc = "tracked"
    /\ ContactsActive' = (Tips(out) # {})
    /\ LET updated == ai_ptp_feature_contacts_update(features, Tips(out) # {})
       IN  /\ snapshot' = updated
           /\ neutral' = (NeutralRequired \/ updated.neutral)
           /\ features' = [updated EXCEPT !.neutral = FALSE]
    /\ NeutralRequired' = FALSE
    /\ pc' = "encode"
    /\ UNCHANGED <<slots, frame, match, out, Running, Failures, visible, lost>>

\* ai_ptp_encode_input produces no report in another mode or while a change
\* is pending; a neutral report takes the place of whatever was encoded.
Encoded == neutral \/ (snapshot.mode = 3 /\ ~snapshot.change)
Report == IF neutral \/ ~snapshot.surface THEN <<>> ELSE out

\* What Windows makes of a report: contacts it lists go down or up, and one
\* that lists none lifts all.
Seen(report) ==
    IF report = <<>> THEN {}
    ELSE (visible \ {c.id : c \in Range(report)}) \cup Tips(report)

\* The worker's locals end with the report.
Finish ==
    /\ pc' = "idle" /\ frame' = <<>> /\ match' = <<>> /\ out' = <<>>
    /\ snapshot' = InitialFeatures /\ neutral' = FALSE

Skip ==
    /\ pc = "encode" /\ ~Encoded /\ Finish
    /\ UNCHANGED <<slots, features, ContactsActive, NeutralRequired, Running,
                   Failures, visible, lost>>

AiVhfFrontendSubmitTrackpad ==
    /\ pc = "encode" /\ Encoded
    /\ visible' = Seen(Report) /\ lost' = (lost /\ Report # <<>>)
    /\ Failures' = 0 /\ Finish
    /\ UNCHANGED <<slots, features, ContactsActive, NeutralRequired, Running>>

\* VhfReadReportSubmit refuses the report; after FailureLimit in a row the
\* touchpad is withdrawn.
SubmitFails ==
    /\ pc = "encode" /\ Encoded
    /\ Failures' = Failures + 1 /\ Finish
    /\ IF Failures' >= FailureLimit THEN AiTrackpadVhfStop
       ELSE lost' = TRUE /\ UNCHANGED <<Running, visible>>
    /\ UNCHANGED <<slots, features, ContactsActive, NeutralRequired>>

-----------------------------------------------------------------------------
\* Windows selects the input mode: at once when no finger is down, else when
\* the last one is lifted, and then a neutral report is owed.
ai_ptp_set_feature(f, requested, active) ==
    IF \/ f.change /\ f.pending = requested
       \/ ~f.change /\ f.mode = requested
    THEN f
    ELSE IF active
         THEN [f EXCEPT !.pending = requested, !.change = TRUE, !.neutral = TRUE]
         ELSE [f EXCEPT !.pending = requested, !.mode = requested, !.change = FALSE,
                        !.neutral = FALSE]

\* A slip: fingers that are down do not defer the change.
SetInputModeAtOnce(requested) ==
    /\ Running
    /\ features' = ai_ptp_set_feature(features, requested, FALSE)
    /\ UNCHANGED <<slots, frame, match, out, snapshot, neutral, ContactsActive,
                   NeutralRequired, Running, Failures, pc, visible, lost>>

SetInputMode(requested) ==
    /\ Running
    /\ features' = ai_ptp_set_feature(features, requested, ContactsActive)
    /\ NeutralRequired' = (NeutralRequired \/ (features' # features /\ ContactsActive))
    /\ UNCHANGED <<slots, frame, match, out, snapshot, neutral, ContactsActive,
                   Running, Failures, pc, visible, lost>>

\* Windows switches reporting of the surface.
SetSelective ==
    /\ Running
    /\ features' = [features EXCEPT !.surface = ~@]
    /\ UNCHANGED <<slots, frame, match, out, snapshot, neutral, ContactsActive,
                   NeutralRequired, Running, Failures, pc, visible, lost>>

Next ==
    \/ AiTrackpadVhfStart \/ AiVhfFrontendStop
    \/ \E new \in Frames : ProcessTrackpadReport(new)
    \/ ai_trackpad_tracker_update \/ TakeFeatures
    \/ Skip \/ AiVhfFrontendSubmitTrackpad \/ SubmitFails
    \/ \E requested \in {0, 3} : SetInputMode(requested)
    \/ SetSelective

Spec == Init /\ [][Next]_vars
-----------------------------------------------------------------------------
\* A frame's fingers are matched with the last frame's at the least total
\* distance and one to one: the Hungarian algorithm of the driver against all
\* assignments.
Nearest ==
    pc = "matched" =>
        LET cost == CostMatrix(frame)
            p == IF RowsAreOld(frame)
                 THEN [j \in DOMAIN match |->
                        IF match[j] = 0 THEN 0
                        ELSE CHOOSE i \in DOMAIN OldSlots : OldSlots[i] = match[j]]
                 ELSE [j \in DOMAIN OldSlots |->
                        IF \E i \in DOMAIN match : match[i] = OldSlots[j]
                        THEN CHOOSE i \in DOMAIN match : match[i] = OldSlots[j] ELSE 0]
        IN  IsMinimum(p, cost, Shorter(frame), Longer(frame))

\* The contacts of a frame fit the array of PtpMaxContacts entries, lifted and
\* new ones together, and none is listed twice.
OutputFits ==
    /\ Len(out) <= PtpMaxContacts
    /\ \A i, j \in DOMAIN out : i # j => out[i].id # out[j].id

\* No contact stays down for Windows when the finger is gone or Windows has
\* left the touchpad mode, whatever order frames and mode changes come in,
\* unless a report was refused.
NoStuckContact ==
    (pc = "idle" /\ Running /\ ~lost) =>
        /\ visible \subseteq Down
        /\ features.mode # 3 /\ ~features.change => visible = {}
=============================================================================
