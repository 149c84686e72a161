------------------------ MODULE Suggestions_proofs ------------------------
(***************************************************************************)
(* What decisions about suggestions keep true for any number of users,      *)
(* admins, suggestions and addresses.                                       *)
(*                                                                          *)
(* Two facts hold under every interleaving: open suggestions have different *)
(* addresses, and an approved one has a server made for it, because a       *)
(* handler that is about to mark it has made that server (Marking).  The    *)
(* other two need decisions that do not overlap: Decided says, per stage of *)
(* the only decision, what the two tables hold.                             *)
(***************************************************************************)
EXTENDS Suggestions, FiniteSetTheorems, TLAPS

Stages ==
    \A r \in Requests :
        LET q == req[r] IN
        /\ q.at \in {"track", "read", "write", "delete"} <=> q.id \in Sids
        /\ q.at \in {"find", "insert", "track", "write"} => q.host \in Hosts
        /\ q.at \in {"track", "delete"} =>
             q.op = IF q.at = "track" THEN "approve" ELSE "delete"
        /\ q.at \in {"read", "write"} => q.op \in {"approve", "deny"}
        /\ q.op = "approve" => q.host \in Hosts

Marking ==
    \A r \in Requests :
        req[r].op = "approve" /\ req[r].at \in {"read", "write"} =>
            <<req[r].id, req[r].host>> \in made

Made(s) == {h \in Hosts : <<s, h>> \in made}

Alone(s) == \A q, r \in Requests : req[q].id = s /\ req[r].id = s => q = r

\* What the only decision q on s has found and done so far.
UnderWay(s, q) ==
    IF q.op = "approve"
    THEN /\ sugg[s].status \in {"pending", "deleted"}
         /\ Made(s) = IF q.at = "track" THEN {} ELSE {q.host}
    ELSE /\ sugg[s].status \in {"pending", "denied", "deleted"}
         /\ Made(s) = {}

Settled(s) ==
    /\ sugg[s].status = "approved" => \E h \in Hosts : Made(s) = {h}
    /\ sugg[s].status \in {"none", "pending", "denied"} => Made(s) = {}

Decided ==
    \A s \in Sids \ disturbed :
        /\ Alone(s)
        /\ \A r \in Requests : req[r].id = s => UnderWay(s, req[r])
        /\ (\A r \in Requests : req[r].id # s) => Settled(s)

SuggestionInv ==
    /\ TypeOK
    /\ Stages
    /\ OpenUnique
    /\ Marking
    /\ ApprovedWasTracked
    /\ Decided

-----------------------------------------------------------------------------

LEMMA InitInv == Init => SuggestionInv
<1> SUFFICES ASSUME Init PROVE SuggestionInv
  OBVIOUS
<1>1. TypeOK
  BY DEF Init, TypeOK, Suggestion, Request, IdleRequest
<1>2. \A s \in Sids : sugg[s].status = "none"
  BY DEF Init
<1>3. \A r \in Requests : req[r] = IdleRequest
  BY DEF Init
<1>4. \A s \in Sids : Made(s) = {}
  BY DEF Init, Made
<1>5. QED
  BY <1>1, <1>2, <1>3, <1>4, NoSidAssumption
  DEF SuggestionInv, Stages, OpenUnique, Marking, ApprovedWasTracked, Decided,
      Alone, UnderWay, Settled, IdleRequest

\* A request that is over decides nothing.
LEMMA FinishStages ==
    ASSUME TypeOK, Stages, NEW r \in Requests, Finish(r)
    PROVE  /\ req' \in [Requests -> Request] /\ Stages'
           /\ req'[r] = IdleRequest /\ req'[r].id = NoSid
           /\ \A q \in Requests \ {r} : req'[q] = req[q]
BY NoSidAssumption DEF TypeOK, Stages, Finish, Request, IdleRequest

LEMMA TypeStep ==
    ASSUME TypeOK, Stages, [Next]_vars
    PROVE  TypeOK' /\ Stages'
<1> USE DEF TypeOK
<1>1. ASSUME NEW r \in Requests, SubmitNext(r)
      PROVE  TypeOK' /\ Stages'
  <2>1. ASSUME NEW h \in Hosts, SubmitAccept(r, h) PROVE TypeOK' /\ Stages'
    BY <2>1, NoSidAssumption DEF SubmitAccept, Request, Stages
  <2>2. CASE SubmitFind(r)
    BY <2>2, FinishStages DEF SubmitFind, Goto, Request, Stages
  <2>3. ASSUME NEW s \in Sids, SubmitInsert(r, s) PROVE TypeOK' /\ Stages'
    <3>1. req[r].host \in Hosts
      BY <2>3 DEF SubmitInsert, Stages
    <3>2. QED
      BY <2>3, <3>1, FinishStages DEF SubmitInsert, Suggestion
  <2>4. CASE SubmitConflict(r)
    BY <2>4, FinishStages DEF SubmitConflict
  <2>5. QED
    BY <1>1, <2>1, <2>2, <2>3, <2>4 DEF SubmitNext
<1>2. ASSUME NEW r \in Requests, ApproveNext(r)
      PROVE  TypeOK' /\ Stages'
  <2>1. ASSUME NEW s \in Sids, NEW h \in Hosts \cup {NoHost}, ApproveAccept(r, s, h)
        PROVE  TypeOK' /\ Stages'
    <3>1. sugg[s] \in Suggestion /\ sugg[s].status = "pending"
      BY <2>1 DEF ApproveAccept
    <3>2. Target(s, h) \in Hosts
      BY <3>1 DEF Target, Suggestion
    <3>3. QED
      BY <2>1, <3>2 DEF ApproveAccept, Decide, Request, Stages
  <2>2. CASE ApproveTrack(r)
    <3>1. req[r].id \in Sids /\ req[r].host \in Hosts /\ req[r].op = "approve"
      BY <2>2 DEF ApproveTrack, Stages
    <3>2. QED
      BY <2>2, <3>1 DEF ApproveTrack, Goto, Request, Stages
  <2>3. CASE ApproveConflict(r)
    BY <2>3, FinishStages DEF ApproveConflict
  <2>4. CASE ApproveRead(r)
    BY <2>4, FinishStages DEF ApproveRead, Goto, Request, Stages
  <2>5. CASE ApproveWrite(r)
    <3>1. req[r].id \in Sids /\ req[r].host \in Hosts
      BY <2>5 DEF ApproveWrite, Stages
    <3>2. QED
      BY <2>5, <3>1, FinishStages DEF ApproveWrite, Suggestion
  <2>6. QED
    BY <1>2, <2>1, <2>2, <2>3, <2>4, <2>5 DEF ApproveNext
<1>3. ASSUME NEW r \in Requests, DenyNext(r) \/ DeleteNext(r)
      PROVE  TypeOK' /\ Stages'
  <2>1. ASSUME NEW s \in Sids, DenyAccept(r, s) \/ DeleteAccept(r, s)
        PROVE  TypeOK' /\ Stages'
    BY <2>1 DEF DenyAccept, DeleteAccept, Decide, Request, Stages
  <2>2. CASE DenyRead(r)
    <3>1. req[r].id \in Sids /\ sugg[req[r].id] \in Suggestion
      BY <2>2 DEF DenyRead, Stages
    <3>2. HasRow(req[r].id) => sugg[req[r].id].host \in Hosts
      BY <3>1 DEF HasRow, Suggestion
    <3>3. QED
      BY <2>2, <3>1, <3>2, FinishStages DEF DenyRead, Request, Stages
  <2>3. CASE DenyWrite(r)
    <3>1. req[r].id \in Sids /\ req[r].host \in Hosts
      BY <2>3 DEF DenyWrite, Stages
    <3>2. QED
      BY <2>3, <3>1, FinishStages DEF DenyWrite, Suggestion
  <2>4. CASE DeleteRow(r)
    BY <2>4, FinishStages DEF DeleteRow, Suggestion, Deleted
  <2>5. QED
    BY <1>3, <2>1, <2>2, <2>3, <2>4 DEF DenyNext, DeleteNext
<1>4. ASSUME NEW r \in Requests, Disconnect(r)
      PROVE  TypeOK' /\ Stages'
  BY <1>4, FinishStages DEF Disconnect, Request
<1>5. CASE Elsewhere
  BY <1>5 DEF Elsewhere, TrackServer, UntrackServer, MoveServer, OwnerDeleted,
              Suggestion, Deleted, Stages
<1>6. CASE UNCHANGED vars
  BY <1>6 DEF vars, Stages
<1>7. QED
  BY <1>1, <1>2, <1>3, <1>4, <1>5, <1>6 DEF Next

-----------------------------------------------------------------------------
(* Under every interleaving *)

\* The three tables only change in these ways.
RowStep ==
    \/ sugg' = sugg
    \/ \E s \in Sids, h \in Hosts :
         /\ sugg[s].status = "none" /\ ~Suggested(h, s)
         /\ sugg' = [sugg EXCEPT ![s] = [status |-> "pending", host |-> h]]
    \/ \E s \in Sids, h \in Hosts :
         /\ ~Suggested(h, s)
         /\ sugg' = [sugg EXCEPT ![s] = [status |-> "denied", host |-> h]]
    \/ \E s \in Sids, h \in Hosts :
         /\ <<s, h>> \in made
         /\ sugg' = [sugg EXCEPT ![s] = [status |-> "approved", host |-> h]]
    \/ \E s \in Sids : sugg' = [sugg EXCEPT ![s] = Deleted]

LEMMA RowSteps ==
    ASSUME TypeOK, Stages, Marking, [Next]_vars
    PROVE  RowStep /\ made \subseteq made'
<1>1. ASSUME NEW r \in Requests, SubmitNext(r)
      PROVE  RowStep /\ made \subseteq made'
  BY <1>1 DEF SubmitNext, SubmitAccept, SubmitFind, SubmitInsert, SubmitConflict,
              Stages, RowStep
<1>2. ASSUME NEW r \in Requests, ApproveNext(r)
      PROVE  RowStep /\ made \subseteq made'
  <2>1. CASE ApproveWrite(r)
    <3>1. /\ req[r].id \in Sids /\ req[r].host \in Hosts
          /\ <<req[r].id, req[r].host>> \in made
      BY <2>1 DEF ApproveWrite, Stages, Marking
    <3>2. QED
      BY <2>1, <3>1 DEF ApproveWrite, RowStep
  <2>2. CASE ~ApproveWrite(r)
    BY <1>2, <2>2 DEF ApproveNext, ApproveAccept, Decide, ApproveTrack,
                      ApproveConflict, ApproveRead, RowStep
  <2>3. QED
    BY <2>1, <2>2
<1>3. ASSUME NEW r \in Requests, DenyNext(r) \/ DeleteNext(r)
      PROVE  RowStep /\ made \subseteq made'
  <2>1. CASE DenyWrite(r)
    <3>1. req[r].id \in Sids /\ req[r].host \in Hosts
      BY <2>1 DEF DenyWrite, Stages
    <3>2. QED
      BY <2>1, <3>1 DEF DenyWrite, RowStep
  <2>2. CASE DeleteRow(r)
    <3>1. req[r].id \in Sids
      BY <2>2 DEF DeleteRow, Stages
    <3>2. QED
      BY <2>2, <3>1 DEF DeleteRow, RowStep
  <2>3. CASE ~DenyWrite(r) /\ ~DeleteRow(r)
    BY <1>3, <2>3 DEF DenyNext, DeleteNext, DenyAccept, DeleteAccept, Decide,
                      DenyRead, RowStep
  <2>4. QED
    BY <2>1, <2>2, <2>3
<1>4. ASSUME NEW r \in Requests, Disconnect(r)
      PROVE  RowStep /\ made \subseteq made'
  BY <1>4 DEF Disconnect, RowStep
<1>5. CASE Elsewhere
  BY <1>5 DEF Elsewhere, TrackServer, UntrackServer, MoveServer, OwnerDeleted,
              RowStep
<1>6. CASE UNCHANGED vars
  BY <1>6 DEF vars, RowStep
<1>7. QED
  BY <1>1, <1>2, <1>3, <1>4, <1>5, <1>6 DEF Next

LEMMA OpenUniqueStep ==
    ASSUME TypeOK, OpenUnique, RowStep
    PROVE  OpenUnique'
<1> USE DEF TypeOK
<1>1. CASE sugg' = sugg
  BY <1>1 DEF OpenUnique
<1>2. ASSUME NEW s \in Sids, NEW h \in Hosts, NEW st \in {"pending", "denied"},
             ~Suggested(h, s),
             sugg' = [sugg EXCEPT ![s] = [status |-> st, host |-> h]]
      PROVE  OpenUnique'
  <2>1. \A t \in Sids \ {s} : sugg'[t] = sugg[t]
    BY <1>2
  <2>2. sugg'[s].host = h
    BY <1>2
  <2>3. \A t \in Sids \ {s} :
          sugg[t].status \in {"pending", "denied"} => sugg[t].host # h
    BY <1>2 DEF Suggested, Open
  <2>4. QED
    BY <2>1, <2>2, <2>3 DEF OpenUnique
<1>3. ASSUME NEW s \in Sids, NEW v, v.status \notin {"pending", "denied"},
             sugg' = [sugg EXCEPT ![s] = v]
      PROVE  OpenUnique'
  BY <1>3 DEF OpenUnique
<1>4. QED
  BY <1>1, <1>2, <1>3 DEF RowStep, Deleted

LEMMA ApprovedStep ==
    ASSUME TypeOK, ApprovedWasTracked, RowStep, made \subseteq made'
    PROVE  ApprovedWasTracked'
<1> USE DEF TypeOK
<1> SUFFICES ASSUME NEW s \in Sids, sugg'[s].status = "approved"
             PROVE  <<s, sugg'[s].host>> \in made
  BY DEF ApprovedWasTracked
<1>1. CASE sugg'[s] = sugg[s]
  BY <1>1 DEF ApprovedWasTracked
<1>2. CASE sugg'[s] # sugg[s]
  <2>1. ASSUME NEW t \in Sids, NEW h \in Hosts, NEW st \in {"pending", "denied"},
               sugg' = [sugg EXCEPT ![t] = [status |-> st, host |-> h]]
        PROVE  FALSE
    BY <1>2, <2>1
  <2>2. ASSUME NEW t \in Sids, sugg' = [sugg EXCEPT ![t] = Deleted]
        PROVE  FALSE
    BY <1>2, <2>2 DEF Deleted
  <2>3. PICK t \in Sids, h \in Hosts :
          /\ <<t, h>> \in made
          /\ sugg' = [sugg EXCEPT ![t] = [status |-> "approved", host |-> h]]
    BY <1>2, <2>1, <2>2 DEF RowStep
  <2>4. t = s /\ sugg'[s].host = h
    BY <1>2, <2>3
  <2>5. QED
    BY <2>3, <2>4
<1>3. QED
  BY <1>1, <1>2

LEMMA MarkingStep ==
    ASSUME TypeOK, Stages, Marking, [Next]_vars, made \subseteq made'
    PROVE  Marking'
<1> USE DEF TypeOK
<1> SUFFICES ASSUME NEW q \in Requests,
                    req'[q].op = "approve", req'[q].at \in {"read", "write"}
             PROVE  <<req'[q].id, req'[q].host>> \in made'
  BY DEF Marking
<1>1. CASE /\ req[q].op = "approve" /\ req[q].at \in {"read", "write"}
           /\ req'[q].id = req[q].id /\ req'[q].host = req[q].host
  BY <1>1 DEF Marking
<1>2. ASSUME NEW r \in Requests, SubmitNext(r)
      PROVE  <<req'[q].id, req'[q].host>> \in made'
  BY <1>1, <1>2 DEF SubmitNext, SubmitAccept, SubmitFind, SubmitInsert,
                    SubmitConflict, Finish, Goto, IdleRequest, Request
<1>3. ASSUME NEW r \in Requests, ApproveNext(r)
      PROVE  <<req'[q].id, req'[q].host>> \in made'
  <2>1. CASE ApproveTrack(r)
    BY <1>1, <2>1 DEF ApproveTrack, Goto, Request
  <2>2. CASE ~ApproveTrack(r)
    BY <1>1, <1>3, <2>2 DEF ApproveNext, ApproveAccept, Decide,
        ApproveConflict, ApproveRead, ApproveWrite, Finish, Goto, IdleRequest,
        Request
  <2>3. QED
    BY <2>1, <2>2
<1>4. ASSUME NEW r \in Requests, DenyNext(r) \/ DeleteNext(r)
      PROVE  <<req'[q].id, req'[q].host>> \in made'
  BY <1>1, <1>4 DEF DenyNext, DeleteNext, DenyAccept, DeleteAccept, Decide,
                    DenyRead, DenyWrite, DeleteRow, Finish, IdleRequest, Request
<1>5. ASSUME NEW r \in Requests, Disconnect(r)
      PROVE  <<req'[q].id, req'[q].host>> \in made'
  BY <1>1, <1>5 DEF Disconnect, Finish, IdleRequest, Request
<1>6. CASE Elsewhere \/ UNCHANGED vars
  BY <1>1, <1>6 DEF Elsewhere, TrackServer, UntrackServer, MoveServer,
                    OwnerDeleted, vars
<1>7. QED
  BY <1>2, <1>3, <1>4, <1>5, <1>6 DEF Next

-----------------------------------------------------------------------------
(* While decisions do not overlap *)

Fine(s) ==
    /\ Alone(s)
    /\ \A r \in Requests : req[r].id = s => UnderWay(s, req[r])
    /\ (\A r \in Requests : req[r].id # s) => Settled(s)

\* A step that touches neither s nor its decision.
LEMMA FineElsewhere ==
    ASSUME NEW s \in Sids, Fine(s), sugg'[s] = sugg[s], Made(s)' = Made(s),
           \A q \in Requests :
             req'[q] = req[q] \/ (req'[q].id # s /\ req[q].id # s)
    PROVE  Fine(s)'
BY DEF Fine, Alone, UnderWay, Settled

\* The only decision on s ends.
LEMMA FineAfterwards ==
    ASSUME NEW s \in Sids, TypeOK, Stages, Fine(s), NEW r \in Requests,
           req[r].id = s, Finish(r), Settled(s)'
    PROVE  Fine(s)'
BY NoSidAssumption DEF TypeOK, Fine, Alone, Finish, IdleRequest

\* A decision on s begins.
LEMMA FineBegin ==
    ASSUME NEW s \in Sids, TypeOK, Stages, s \notin disturbed', Fine(s),
           NEW r \in Requests, NEW t \in Sids, NEW q, q.id = t, Decide(r, t, q),
           t = s /\ Settled(s) => UnderWay(s, q)
    PROVE  Fine(s)'
<1> USE DEF TypeOK
<1>1. /\ req' = [req EXCEPT ![r] = q] /\ sugg' = sugg /\ made' = made
      /\ req[r].id \notin Sids
  BY DEF Decide, Stages
<1>2. CASE t # s
  <2>1. \A p \in Requests :
          req'[p] = req[p] \/ (req'[p].id # s /\ req[p].id # s)
    BY <1>1, <1>2
  <2>2. QED
    BY <1>1, <2>1, FineElsewhere DEF Made
<1>3. CASE t = s
  <2>1. \A p \in Requests : req[p].id # s
    BY <1>3 DEF Decide, Deciding
  <2>2. Settled(s)
    BY <2>1 DEF Fine
  <2>3. UnderWay(s, q)
    BY <1>3, <2>2
  <2>4. req'[r] = q /\ \A p \in Requests \ {r} : req'[p] = req[p]
    BY <1>1
  <2>5. UnderWay(s, req[r])'
    BY <1>1, <2>3, <2>4 DEF UnderWay, Made
  <2>6. QED
    BY <1>3, <2>1, <2>4, <2>5 DEF Fine, Alone
<1>4. QED
  BY <1>2, <1>3

LEMMA FineStep ==
    ASSUME TypeOK, Stages, NEW s \in Sids, s \notin disturbed', Fine(s), [Next]_vars
    PROVE  Fine(s)'
<1> USE DEF TypeOK
<1>0. \A r \in Requests : req[r].id = s => UnderWay(s, req[r])
  BY DEF Fine
<1>1. ASSUME NEW r \in Requests, SubmitNext(r)
      PROVE  Fine(s)'
  <2>1. req[r].id \notin Sids
    BY <1>1 DEF SubmitNext, SubmitAccept, SubmitFind, SubmitInsert,
                SubmitConflict, Stages
  <2>2. req'[r].id \notin Sids /\ \A q \in Requests \ {r} : req'[q] = req[q]
    BY <1>1, <2>1, NoSidAssumption DEF SubmitNext, SubmitAccept, SubmitFind,
        SubmitInsert, SubmitConflict, Finish, Goto, IdleRequest, Request
  <2>3. Made(s)' = Made(s)
    BY <1>1 DEF SubmitNext, SubmitAccept, SubmitFind, SubmitInsert,
                SubmitConflict, Made
  <2>4. CASE sugg'[s] = sugg[s]
    BY <2>1, <2>2, <2>3, <2>4, FineElsewhere
  <2>5. CASE sugg'[s] # sugg[s]
    <3>1. sugg[s].status = "none" /\ sugg'[s].status = "pending"
      BY <1>1, <2>5 DEF SubmitNext, SubmitAccept, SubmitFind, SubmitInsert,
                        SubmitConflict
    <3>2. \A q \in Requests : req[q].id # s
      BY <1>0, <3>1 DEF UnderWay
    <3>3. Made(s) = {}
      BY <3>1, <3>2 DEF Fine, Settled
    <3>4. \A q \in Requests : req'[q].id # s
      BY <2>2, <3>2
    <3>5. QED
      BY <2>3, <3>1, <3>3, <3>4 DEF Fine, Alone, Settled
  <2>6. QED
    BY <2>4, <2>5
<1>2. ASSUME NEW r \in Requests, ApproveNext(r)
      PROVE  Fine(s)'
  <2>1. ASSUME NEW t \in Sids, NEW h \in Hosts \cup {NoHost}, ApproveAccept(r, t, h)
        PROVE  Fine(s)'
    <3> DEFINE q == [op |-> "approve", at |-> "track", id |-> t, host |-> Target(t, h)]
    <3>1. Decide(r, t, q) /\ sugg[t].status = "pending"
      BY <2>1 DEF ApproveAccept
    <3>2. t = s /\ Settled(s) => UnderWay(s, q)
      BY <3>1 DEF Settled, UnderWay
    <3>3. QED
      BY <3>1, <3>2, FineBegin
  <2>2. CASE ApproveTrack(r)
    <3> DEFINE t == req[r].id
    <3>1. /\ req[r].host \in Hosts /\ req[r].op = "approve"
          /\ made' = made \cup {<<t, req[r].host>>} /\ sugg' = sugg
          /\ req' = [req EXCEPT ![r].at = "read"]
      BY <2>2 DEF ApproveTrack, Goto, Stages
    <3>2. \A q \in Requests \ {r} : req'[q] = req[q]
      BY <3>1
    <3>3. req'[r].id = t /\ req'[r].host = req[r].host /\ req'[r].op = "approve"
          /\ req'[r].at = "read"
      BY <3>1 DEF Request
    <3>4. CASE t # s
      BY <3>1, <3>2, <3>3, <3>4, FineElsewhere DEF Made
    <3>5. CASE t = s
      <4>1. UnderWay(s, req[r]) /\ req[r].at = "track"
        BY <1>0, <2>2, <3>5 DEF ApproveTrack
      <4>2. Made(s)' = {req[r].host}
        BY <3>1, <3>5, <4>1 DEF Made, UnderWay
      <4>3. UnderWay(s, req[r])'
        BY <3>1, <3>3, <4>1, <4>2 DEF UnderWay
      <4>4. \A q \in Requests : req[q].id = s => q = r
        BY <3>5 DEF Fine, Alone
      <4>5. QED
        BY <3>2, <3>3, <3>5, <4>3, <4>4 DEF Fine, Alone
    <3>6. QED
      BY <3>4, <3>5
  <2>3. CASE ApproveConflict(r) \/ ApproveRead(r) \/ ApproveWrite(r)
    <3>1. made' = made /\ Made(s)' = Made(s)
      BY <2>3 DEF ApproveConflict, ApproveRead, ApproveWrite, Made
    <3>2. CASE req[r].id # s
      <4>1. sugg'[s] = sugg[s]
        BY <2>3, <3>2 DEF ApproveConflict, ApproveRead, ApproveWrite
      <4>2. /\ req'[r].id # s
            /\ \A q \in Requests \ {r} : req'[q] = req[q]
        BY <2>3, <3>2, NoSidAssumption
        DEF ApproveConflict, ApproveRead, ApproveWrite, Finish, Goto, Request,
            IdleRequest
      <4>3. QED
        BY <3>1, <3>2, <4>1, <4>2, FineElsewhere
    <3>3. CASE req[r].id = s
      <4>1. UnderWay(s, req[r])
        BY <1>0, <3>3
      <4>2. CASE ApproveConflict(r)
        <5>1. req[r].op = "approve" /\ req[r].at = "track" /\ sugg' = sugg /\ Finish(r)
          BY <4>2 DEF ApproveConflict, Stages
        <5>2. Settled(s)'
          BY <3>1, <4>1, <5>1 DEF UnderWay, Settled
        <5>3. QED
          BY <3>3, <5>1, <5>2, FineAfterwards
      <4>3. CASE ApproveWrite(r)
        <5>1. /\ req[r].op = "approve" /\ req[r].at = "write" /\ Finish(r)
              /\ req[r].host \in Hosts
          BY <4>3 DEF ApproveWrite, Stages
        <5>2. sugg'[s].status \in {"approved", "deleted"}
          BY <3>3, <4>1, <4>3, <5>1 DEF ApproveWrite, UnderWay, HasRow
        <5>3. Settled(s)'
          BY <3>1, <4>1, <5>1, <5>2 DEF UnderWay, Settled
        <5>4. QED
          BY <3>3, <5>1, <5>3, FineAfterwards
      <4>4. CASE ApproveRead(r) /\ ~HasRow(s)
        <5>1. req[r].op = "approve" /\ sugg' = sugg /\ Finish(r)
          BY <3>3, <4>4 DEF ApproveRead
        <5>2. sugg[s].status = "deleted"
          BY <4>1, <4>4, <5>1 DEF UnderWay, HasRow
        <5>3. Settled(s)'
          BY <5>1, <5>2 DEF Settled
        <5>4. QED
          BY <3>3, <5>1, <5>3, FineAfterwards
      <4>5. CASE ApproveRead(r) /\ HasRow(s)
        <5>1. /\ req[r].op = "approve" /\ req[r].at = "read" /\ sugg' = sugg
              /\ req' = [req EXCEPT ![r].at = "write"]
          BY <3>3, <4>5 DEF ApproveRead, Goto
        <5>2. /\ req'[r].id = s /\ req'[r].op = "approve" /\ req'[r].at = "write"
              /\ req'[r].host = req[r].host
              /\ \A q \in Requests \ {r} : req'[q] = req[q]
          BY <3>3, <5>1 DEF Request
        <5>3. UnderWay(s, req[r])'
          BY <3>1, <4>1, <5>1, <5>2 DEF UnderWay
        <5>4. \A q \in Requests : req[q].id = s => q = r
          BY <3>3 DEF Fine, Alone
        <5>5. QED
          BY <5>2, <5>3, <5>4 DEF Fine, Alone
      <4>6. QED
        BY <2>3, <4>2, <4>3, <4>4, <4>5
    <3>4. QED
      BY <3>2, <3>3
  <2>4. QED
    BY <1>2, <2>1, <2>2, <2>3 DEF ApproveNext
<1>3. ASSUME NEW r \in Requests, DenyNext(r) \/ DeleteNext(r)
      PROVE  Fine(s)'
  <2>1. ASSUME NEW t \in Sids, DenyAccept(r, t) \/ DeleteAccept(r, t)
        PROVE  Fine(s)'
    <3>1. PICK op \in {"deny", "delete"}, at \in {"read", "delete"} :
            /\ Decide(r, t, [op |-> op, at |-> at, id |-> t, host |-> NoHost])
            /\ sugg[t].status \in {"pending", "denied"}
      BY <2>1 DEF DenyAccept, DeleteAccept, Open
    <3> DEFINE q == [op |-> op, at |-> at, id |-> t, host |-> NoHost]
    <3>2. t = s /\ Settled(s) => UnderWay(s, q)
      BY <3>1 DEF Settled, UnderWay
    <3>3. QED
      BY <3>1, <3>2, FineBegin
  <2>2. CASE DenyRead(r) \/ DenyWrite(r) \/ DeleteRow(r)
    <3>1. made' = made /\ Made(s)' = Made(s)
      BY <2>2 DEF DenyRead, DenyWrite, DeleteRow, Made
    <3>2. req[r].op \in {"deny", "delete"}
      BY <2>2 DEF DenyRead, DenyWrite, DeleteRow, Stages
    <3>3. CASE req[r].id # s
      <4>1. sugg'[s] = sugg[s]
        BY <2>2, <3>3 DEF DenyRead, DenyWrite, DeleteRow
      <4>2. /\ req'[r].id # s
            /\ \A q \in Requests \ {r} : req'[q] = req[q]
        BY <2>2, <3>3, NoSidAssumption
        DEF DenyRead, DenyWrite, DeleteRow, Finish, Request, IdleRequest
      <4>3. QED
        BY <3>1, <3>3, <4>1, <4>2, FineElsewhere
    <3>4. CASE req[r].id = s
      <4>1. Made(s) = {} /\ sugg[s].status \in {"pending", "denied", "deleted"}
        BY <1>0, <3>2, <3>4 DEF UnderWay
      <4>2. sugg'[s].status \in {"pending", "denied", "deleted"}
        BY <2>2, <3>4, <4>1 DEF DenyRead, DenyWrite, DeleteRow, Deleted
      <4>3. CASE Finish(r)
        <5>1. Settled(s)'
          BY <3>1, <4>1, <4>2 DEF Settled
        <5>2. QED
          BY <3>4, <4>3, <5>1, FineAfterwards
      <4>4. CASE ~Finish(r)
        <5>1. DenyRead(r) /\ HasRow(s)
          BY <2>2, <3>4, <4>4 DEF DenyRead, DenyWrite, DeleteRow
        <5>2. /\ req'[r].id = s /\ req'[r].op = "deny"
              /\ \A q \in Requests \ {r} : req'[q] = req[q]
          BY <3>4, <5>1 DEF DenyRead, Request
        <5>3. UnderWay(s, req[r])'
          BY <3>1, <4>1, <4>2, <5>2 DEF UnderWay
        <5>4. \A q \in Requests : req[q].id = s => q = r
          BY <3>4 DEF Fine, Alone
        <5>5. QED
          BY <5>2, <5>3, <5>4 DEF Fine, Alone
      <4>5. QED
        BY <4>3, <4>4
    <3>5. QED
      BY <3>3, <3>4
  <2>3. QED
    BY <1>3, <2>1, <2>2 DEF DenyNext, DeleteNext
<1>4. ASSUME NEW r \in Requests, Disconnect(r)
      PROVE  Fine(s)'
  <2>1. req[r].id # s
    BY <1>4, NoSidAssumption DEF Disconnect
  <2>2. /\ req'[r].id # s /\ sugg' = sugg /\ made' = made
        /\ \A q \in Requests \ {r} : req'[q] = req[q]
    BY <1>4, NoSidAssumption DEF Disconnect, Finish, IdleRequest
  <2>3. QED
    BY <2>1, <2>2, FineElsewhere DEF Made
<1>5. CASE Elsewhere
  <2>1. req' = req /\ made' = made /\ Made(s)' = Made(s)
    BY <1>5 DEF Elsewhere, TrackServer, UntrackServer, MoveServer, OwnerDeleted,
                Made
  <2>2. CASE sugg'[s] = sugg[s]
    BY <2>1, <2>2, FineElsewhere
  <2>3. CASE sugg'[s] # sugg[s]
    <3>1. sugg'[s].status = "deleted"
      BY <1>5, <2>3 DEF Elsewhere, TrackServer, UntrackServer, MoveServer,
                        OwnerDeleted, Deleted
    <3>2. QED
      BY <2>1, <3>1 DEF Fine, Alone, UnderWay, Settled
  <2>4. QED
    BY <2>2, <2>3
<1>6. CASE UNCHANGED vars
  BY <1>6, FineElsewhere DEF vars, Made
<1>7. QED
  BY <1>1, <1>2, <1>3, <1>4, <1>5, <1>6 DEF Next

LEMMA DisturbedGrows == [Next]_vars => disturbed \subseteq disturbed'
BY DEF Next, vars, SubmitNext, SubmitAccept, SubmitFind, SubmitInsert,
   SubmitConflict, ApproveNext, ApproveAccept, Decide, ApproveTrack,
   ApproveConflict, ApproveRead, ApproveWrite, DenyNext, DenyAccept, DenyRead,
   DenyWrite, DeleteNext, DeleteAccept, DeleteRow, Disconnect, Elsewhere,
   TrackServer, UntrackServer, MoveServer, OwnerDeleted

LEMMA SuggestionStep == SuggestionInv /\ [Next]_vars => SuggestionInv'
<1> SUFFICES ASSUME SuggestionInv, [Next]_vars PROVE SuggestionInv'
  OBVIOUS
<1>1. /\ TypeOK /\ Stages /\ OpenUnique /\ Marking /\ ApprovedWasTracked
      /\ Decided
  BY DEF SuggestionInv
<1>2. TypeOK' /\ Stages'
  BY <1>1, TypeStep
<1>3. RowStep /\ made \subseteq made'
  BY <1>1, RowSteps
<1>4. OpenUnique' /\ ApprovedWasTracked' /\ Marking'
  BY <1>1, <1>3, OpenUniqueStep, ApprovedStep, MarkingStep
<1>5. disturbed \subseteq disturbed'
  BY DisturbedGrows
<1>6. \A s \in Sids \ disturbed' : Fine(s)'
  <2> SUFFICES ASSUME NEW s \in Sids, s \notin disturbed' PROVE Fine(s)'
    OBVIOUS
  <2>1. Fine(s)
    BY <1>1, <1>5 DEF Decided, Fine
  <2>2. QED
    BY <1>1, <2>1, FineStep
<1>7. Decided'
  BY <1>6 DEF Decided, Fine
<1>8. QED
  BY <1>2, <1>4, <1>7 DEF SuggestionInv

LEMMA SuggestionInvariant == Spec => []SuggestionInv
BY InitInv, SuggestionStep, PTL DEF Spec

\* The types of both tables, of the requests and of the history.
THEOREM SuggestionTypeCorrect == Spec => []TypeOK
<1>1. SuggestionInv => TypeOK
  BY DEF SuggestionInv
<1>2. QED
  BY <1>1, SuggestionInvariant, PTL

\* Two open suggestions never have the same address, under any interleaving.
THEOREM OpenSuggestionsDiffer == Spec => []OpenUnique
<1>1. SuggestionInv => OpenUnique
  BY DEF SuggestionInv
<1>2. QED
  BY <1>1, SuggestionInvariant, PTL

\* Approved implies that a server was made for it, under any interleaving and
\* wherever handlers are cut off.
THEOREM ApprovedSuggestionsWereTracked == Spec => []ApprovedWasTracked
<1>1. SuggestionInv => ApprovedWasTracked
  BY DEF SuggestionInv
<1>2. QED
  BY <1>1, SuggestionInvariant, PTL

\* One server per approval and none without, unless decisions overlapped or
\* were cut off.
THEOREM ApprovalsAndServersAgree == Spec => []ApprovalsMatchServers
<1>1. SuggestionInv => ApprovalsMatchServers
  <2> SUFFICES ASSUME SuggestionInv, NEW s \in Sids \ disturbed, Deciding(s) = {}
               PROVE  CASE sugg[s].status = "approved" -> Cardinality(Made(s)) = 1
                        [] Open(s) -> Made(s) = {}
                        [] OTHER -> TRUE
    BY DEF ApprovalsMatchServers, Made
  <2>1. Settled(s)
    BY DEF SuggestionInv, Decided, Deciding
  <2>2. sugg[s].status = "approved" => Cardinality(Made(s)) = 1
    BY <2>1, FS_Singleton DEF Settled
  <2>3. Open(s) => Made(s) = {} /\ sugg[s].status # "approved"
    BY <2>1 DEF Settled, Open
  <2>4. QED
    BY <2>2, <2>3
<1>2. QED
  BY <1>1, SuggestionInvariant, PTL

\* An approval is never taken back by another decision, unless decisions
\* overlapped or were cut off.
THEOREM ApprovalsAreFinal == Spec => ApprovalsStand
<1>1. SuggestionInv /\ [Next]_vars =>
        [\A s \in Sids \ disturbed' :
           sugg[s].status = "approved" =>
             sugg'[s].status = "approved" \/ OwnerDeleted(s)]_vars
  <2> SUFFICES ASSUME SuggestionInv, Next, NEW s \in Sids, s \notin disturbed',
                      sugg[s].status = "approved", sugg'[s] # sugg[s],
                      ~OwnerDeleted(s)
               PROVE  sugg'[s].status = "approved"
    BY DEF vars
  <2>1. TypeOK /\ Stages
    BY DEF SuggestionInv
  <2>2. \A r \in Requests : req[r].id # s
    <3>1. s \notin disturbed
      BY DisturbedGrows
    <3>2. QED
      BY <3>1 DEF SuggestionInv, Decided, UnderWay
  <2>3. ASSUME NEW r \in Requests, SubmitNext(r)
        PROVE  FALSE
    BY <2>1, <2>3 DEF SubmitNext, SubmitAccept, SubmitFind, SubmitInsert,
                      SubmitConflict, TypeOK
  <2>4. ASSUME NEW r \in Requests,
               ApproveNext(r) \/ DenyNext(r) \/ DeleteNext(r) \/ Disconnect(r)
        PROVE  FALSE
    BY <2>1, <2>2, <2>4
    DEF ApproveNext, ApproveAccept, Decide, ApproveTrack, ApproveConflict,
        ApproveRead, ApproveWrite, DenyNext, DenyAccept, DenyRead, DenyWrite,
        DeleteNext, DeleteAccept, DeleteRow, Disconnect, TypeOK
  <2>5. CASE Elsewhere
    BY <2>1, <2>5 DEF Elsewhere, TrackServer, UntrackServer, MoveServer,
                      OwnerDeleted, TypeOK
  <2>6. QED
    BY <2>3, <2>4, <2>5 DEF Next
<1>2. QED
  BY <1>1, SuggestionInvariant, PTL DEF Spec, ApprovalsStand
=============================================================================
