-------------------------- MODULE OnboardingProofs --------------------------
(***************************************************************************)
(* Proofs about Onboarding, for any number of partners, requests and       *)
(* overlapping calls: its types; that what is active was signed for and is *)
(* active as a whole; that finished requests and submitted applications    *)
(* stay as they are until calls on them overlap.                           *)
(***************************************************************************)
EXTENDS Onboarding, TLAPS

-----------------------------------------------------------------------------
(* The inductive invariants.                                               *)

\* Every request belongs to a partner that exists.
RequestsHavePartners ==
    \A r \in Request : request[r] # "ABSENT" =>
        issuedTo[r] \in Partner /\ contract[issuedTo[r]] # "ABSENT"

ExistTogether == \A p \in Partner : contract[p] = "ABSENT" <=> organization[p] = "ABSENT"

NoneSignedBefore ==
    \A r \in Request : request[r] = "ABSENT" => r \notin signed /\ issuedTo[r] = NoPartner

\* What a call on a request has established before its next update.
Reached(c) ==
    /\ request[c.request] # "ABSENT"
    /\ c.next \in {"PARTNER", "ORGANIZATION"} => c.request \in signed
    /\ c.next = "ORGANIZATION" => contract[issuedTo[c.request]] = "ACTIVE"

SigningReached == \A c \in signing : Reached(c)

ActivatingReached ==
    \A c \in activating : c.partner \in activated /\ organization[c.partner] = "ACTIVE"

IInv ==
    /\ TypeOK
    /\ RequestsHavePartners /\ ExistTogether /\ NoneSignedBefore
    /\ SigningReached /\ ActivatingReached
    /\ ActiveIsSigned /\ ActivationIsWhole

\* On a request where no calls overlapped, the one call still finds what its
\* check has found.
Current(c) ==
    /\ c.next \in {"SEND", "VIEW", "SIGN"} => request[c.request] \notin Closed
    /\ c.next = "CANCEL" => request[c.request] # "COMPLETED"

SigningCurrent ==
    \A c \in signing : c.request \notin raced =>
        /\ Current(c)
        /\ \A d \in signing : d.request = c.request => d = c

\* Likewise for an application.
ApplyingCurrent ==
    \A c \in applying : c.partner \notin raced =>
        /\ kyb[c.partner] = "DRAFT"
        /\ \A d \in applying : d.partner = c.partner => d = c

\* Applications belong to organizations, and calls on them to applications.
ApplicationsExist ==
    /\ \A p \in Partner : kyb[p] # "ABSENT" => organization[p] # "ABSENT"
    /\ \A c \in applying : kyb[c.partner] # "ABSENT"

FreshIInv == TypeOK /\ ApplicationsExist /\ SigningCurrent /\ ApplyingCurrent

-----------------------------------------------------------------------------
LEMMA InitTypeOK == Init => TypeOK
BY DEF Init, TypeOK, ContractStatus, KYBStatus, SigningStatus

LEMMA StepTypeOK == IInv /\ [Next]_vars => TypeOK'
<1> SUFFICES ASSUME IInv, TypeOK, [Next]_vars PROVE TypeOK'
  BY DEF IInv
<1> USE DEF TypeOK, ContractStatus, KYBStatus, SigningStatus, partnerVars, kybVars,
            requestVars
<1>1. ASSUME NEW p \in Partner, NEW s \in {"ABSENT", "DRAFT"}, CreatePartner(p, s)
      PROVE  TypeOK'
  BY <1>1 DEF CreatePartner
<1>2. ASSUME NEW r \in Request, Expire(r) PROVE TypeOK'
  BY <1>2 DEF Expire
<1>3. ASSUME NEW r \in Request, NEW p \in Partner, Issue(r, p) PROVE TypeOK'
  BY <1>3 DEF Issue
<1>4. ASSUME NEW w \in Worker, Staff(w) PROVE TypeOK'
  BY <1>4 DEF Staff, Activate, Activating
<1>5. ASSUME NEW w \in Worker, Owner(w) PROVE TypeOK'
  <2>1. PICK p \in Partner, d \in Documents, n \in {"EDIT", "SUBMIT"} :
            BeginKYB(w, n, p, d)
    BY <1>5 DEF Owner, SubmitKYB, EditKYB
  <2>2. [by |-> w, next |-> n, partner |-> p, documents |-> d] \in Applying
    BY DEF Applying
  <2>3. QED
    BY <2>1, <2>2 DEF BeginKYB
<1>6. ASSUME NEW w \in Worker, Signer(w) PROVE TypeOK'
  <2>1. PICK r \in Request, n \in {"SEND", "VIEW", "SIGN", "CANCEL"} :
            BeginSigning(w, n, r)
    BY <1>6 DEF Signer, Send, View, Sign, Cancel
  <2>2. [by |-> w, next |-> n, request |-> r] \in Signing
    BY DEF Signing, Todo
  <2>3. QED
    BY <2>1, <2>2 DEF BeginSigning
<1>7. ASSUME NEW c \in activating, ActivateContract(c) \/ StopActivating(c)
      PROVE  TypeOK'
  BY <1>7 DEF ActivateContract, StopActivating, Activating
<1>8. ASSUME NEW c \in applying, WriteKYB(c) \/ StopApplying(c) PROVE TypeOK'
  BY <1>8 DEF WriteKYB, StopApplying, Applying
<1>9. ASSUME NEW c \in signing, WriteRequest(c) PROVE TypeOK'
  BY <1>9 DEF WriteRequest, Signing
<1>10. ASSUME NEW c \in signing, SignRequest(c) \/ SignPartner(c) PROVE TypeOK'
  <2>1. \A n \in Todo : [c EXCEPT !.next = n] \in Signing
    BY DEF Signing
  <2>2. QED
    BY <1>10, <2>1 DEF SignRequest, SignPartner, Goes, Signing, Todo
<1>11. ASSUME NEW c \in signing, SignOrganization(c) PROVE TypeOK'
  BY <1>11 DEF SignOrganization, Signing
<1>12. ASSUME NEW c \in signing, StopSigning(c) PROVE TypeOK'
  <2>1. issuedTo[c.request] \in Partner
    BY DEF IInv, SigningReached, Reached, RequestsHavePartners, Signing
  <2>2. QED
    BY <1>12, <2>1 DEF StopSigning
<1>13. CASE UNCHANGED vars
  BY <1>13 DEF vars
<1> HIDE DEF TypeOK, ContractStatus, KYBStatus, SigningStatus, partnerVars, kybVars,
            requestVars
<1>14. QED
  BY <1>1, <1>2, <1>3, <1>4, <1>5, <1>6, <1>7, <1>8, <1>9, <1>10, <1>11, <1>12,
     <1>13 DEF Next

-----------------------------------------------------------------------------
LEMMA InitIInv == Init => IInv
<1> SUFFICES ASSUME Init PROVE IInv
  OBVIOUS
<1>1. TypeOK
  BY InitTypeOK
<1>2. RequestsHavePartners /\ ExistTogether /\ NoneSignedBefore
  BY DEF Init, RequestsHavePartners, ExistTogether, NoneSignedBefore
<1>3. SigningReached /\ ActivatingReached /\ ActiveIsSigned
  BY DEF Init, SigningReached, ActivatingReached, ActiveIsSigned
<1>4. ActivationIsWhole
  BY DEF Init, ActivationIsWhole, SignedBy
<1>5. QED
  BY <1>1, <1>2, <1>3, <1>4 DEF IInv

\* The part of the state that the invariant is about.
activeVars == <<partnerVars, request, issuedTo, signed, signing, activating, split>>

LEMMA QuietIInv ==
    ASSUME IInv, TypeOK', UNCHANGED activeVars
    PROVE  IInv'
BY DEF IInv, activeVars, partnerVars, RequestsHavePartners, ExistTogether,
       NoneSignedBefore, SigningReached, Reached, ActivatingReached, ActiveIsSigned,
       ActivationIsWhole, SignedBy, Between

LEMMA CreateIInv ==
    ASSUME IInv, TypeOK', NEW p \in Partner, NEW s \in {"ABSENT", "DRAFT"},
           CreatePartner(p, s)
    PROVE  IInv'
<1>1. /\ organization' = [organization EXCEPT ![p] = "DRAFT"]
      /\ contract' = [contract EXCEPT ![p] = "DRAFT"]
      /\ organization[p] = "ABSENT"
      /\ UNCHANGED <<request, issuedTo, signed, signing, activating, activated, split>>
  BY DEF CreatePartner, requestVars
<1>2. TypeOK
  BY DEF IInv
<1>3. RequestsHavePartners' /\ ExistTogether' /\ NoneSignedBefore'
  BY <1>1, <1>2 DEF IInv, TypeOK, RequestsHavePartners, ExistTogether, NoneSignedBefore
<1>4. contract[p] = "ABSENT"
  BY <1>1 DEF IInv, ExistTogether
<1>5. SigningReached' /\ ActivatingReached'
  <2>1. ASSUME NEW c \in signing PROVE Reached(c)'
    BY <1>1, <1>2, <1>4 DEF IInv, TypeOK, Signing, SigningReached, Reached,
       RequestsHavePartners
  <2>2. ASSUME NEW c \in activating
        PROVE  (c.partner \in activated /\ organization[c.partner] = "ACTIVE")'
    BY <1>1, <1>2 DEF IInv, TypeOK, Activating, ActivatingReached
  <2>3. QED
    BY <1>1, <2>1, <2>2 DEF SigningReached, ActivatingReached
<1>6. \A q \in Partner : q # p => /\ organization'[q] = organization[q]
                                /\ contract'[q] = contract[q]
  BY <1>1, <1>2 DEF TypeOK
<1>7. organization'[p] = "DRAFT" /\ contract'[p] = "DRAFT"
  BY <1>1, <1>2 DEF TypeOK
<1>8. SignedBy(p) = {}
  BY <1>2, <1>4 DEF IInv, TypeOK, SignedBy, RequestsHavePartners, NoneSignedBefore
<1>9. ActiveIsSigned'
  BY <1>1, <1>6, <1>7 DEF IInv, ActiveIsSigned, SignedBy
<1>10. ActivationIsWhole'
  BY <1>1, <1>6, <1>7, <1>8 DEF IInv, ActivationIsWhole, SignedBy, Between
<1>11. QED
  BY <1>3, <1>5, <1>9, <1>10 DEF IInv

LEMMA IssueIInv ==
    ASSUME IInv, TypeOK', NEW r \in Request, NEW p \in Partner, Issue(r, p)
    PROVE  IInv'
<1>1. /\ request[r] = "ABSENT" /\ contract[p] # "ABSENT"
      /\ request' = [request EXCEPT ![r] = "DRAFT"]
      /\ issuedTo' = [issuedTo EXCEPT ![r] = p]
      /\ UNCHANGED <<partnerVars, signed, signing, activating, split>>
  BY DEF Issue
<1>2. TypeOK /\ r \notin signed
  BY <1>1 DEF IInv, NoneSignedBefore
<1>3. \A q \in Request : q # r => request'[q] = request[q] /\ issuedTo'[q] = issuedTo[q]
  BY <1>1, <1>2 DEF TypeOK
<1>4. request'[r] = "DRAFT" /\ issuedTo'[r] = p
  BY <1>1, <1>2 DEF TypeOK
<1>5. \A c \in signing : c.request \in Request /\ c.request # r
  BY <1>1, <1>2 DEF IInv, TypeOK, Signing, SigningReached, Reached
<1>6. RequestsHavePartners' /\ ExistTogether' /\ NoneSignedBefore'
  BY <1>1, <1>2, <1>3, <1>4
     DEF IInv, partnerVars, RequestsHavePartners, ExistTogether, NoneSignedBefore
<1>7. SigningReached' /\ ActivatingReached'
  BY <1>1, <1>3, <1>5 DEF IInv, partnerVars, SigningReached, Reached, ActivatingReached
<1>8. \A q \in Partner : SignedBy(q)' = SignedBy(q) /\ Between(q)' = Between(q)
  <2> TAKE q \in Partner
  <2>1. SignedBy(q)' = SignedBy(q)
    BY <1>1, <1>2, <1>3 DEF SignedBy, TypeOK
  <2>2. Between(q)' = Between(q)
    BY <1>1, <1>3, <1>5 DEF Between
  <2>3. QED
    BY <2>1, <2>2
<1>9. ActiveIsSigned' /\ ActivationIsWhole'
  BY <1>1, <1>8 DEF IInv, partnerVars, ActiveIsSigned, ActivationIsWhole
<1>10. QED
  BY <1>6, <1>7, <1>9 DEF IInv

-----------------------------------------------------------------------------
\* The activation by staff, and its end.
LEMMA ActivateIInv ==
    ASSUME IInv, TypeOK', NEW w \in Worker, NEW p \in Partner, Activate(w, p)
    PROVE  IInv'
<1> DEFINE c0 == [by |-> w, partner |-> p]
<1>1. /\ organization[p] # "ABSENT"
      /\ organization' = [organization EXCEPT ![p] = "ACTIVE"]
      /\ activated' = activated \cup {p}
      /\ activating' = activating \cup {c0}
      /\ UNCHANGED <<contract, request, issuedTo, signed, signing, split>>
  BY DEF Activate, requestVars
<1>2. TypeOK
  BY DEF IInv
<1>3. /\ organization'[p] = "ACTIVE"
      /\ \A q \in Partner : q # p => organization'[q] = organization[q]
  BY <1>1, <1>2 DEF TypeOK
<1>4. RequestsHavePartners' /\ ExistTogether' /\ NoneSignedBefore' /\ SigningReached'
  BY <1>1, <1>2, <1>3 DEF IInv, TypeOK, RequestsHavePartners, ExistTogether,
     NoneSignedBefore, SigningReached, Reached
<1>5. ActivatingReached'
  BY <1>1, <1>2, <1>3 DEF IInv, TypeOK, Activating, ActivatingReached
<1>6. ActiveIsSigned'
  BY <1>1, <1>3 DEF IInv, ActiveIsSigned, SignedBy
<1>7. ActivationIsWhole'
  <2> SUFFICES ASSUME NEW q \in Partner, ~Between(q)', q \notin split'
               PROVE  /\ contract'[q] = organization'[q]
                      /\ SignedBy(q)' # {} => contract'[q] = "ACTIVE"
    BY DEF ActivationIsWhole
  <2>1. q # p
    <3>1. c0 \in activating' /\ c0.partner = p
      BY <1>1
    <3>2. \A c \in activating' : c.partner # q
      BY DEF Between
    <3>3. QED
      BY <3>1, <3>2
  <2>2. ~Between(q) /\ q \notin split
    BY <1>1 DEF Between
  <2>3. QED
    BY <1>1, <1>3, <2>1, <2>2 DEF IInv, ActivationIsWhole, SignedBy
<1>8. QED
  BY <1>4, <1>5, <1>6, <1>7 DEF IInv

LEMMA ActivateContractIInv ==
    ASSUME IInv, TypeOK', NEW c \in activating, ActivateContract(c)
    PROVE  IInv'
<1>1. /\ contract' = [contract EXCEPT ![c.partner] = "ACTIVE"]
      /\ activating' = activating \ {c}
      /\ UNCHANGED <<organization, activated, request, issuedTo, signed, signing, split>>
  BY DEF ActivateContract, requestVars
<1>2. TypeOK /\ c.partner \in Partner
  BY DEF IInv, TypeOK, Activating
<1>3. organization[c.partner] = "ACTIVE" /\ c.partner \in activated
  BY DEF IInv, ActivatingReached
<1>4. /\ contract'[c.partner] = "ACTIVE"
      /\ \A q \in Partner : q # c.partner => contract'[q] = contract[q]
  BY <1>1, <1>2 DEF TypeOK
<1>5. RequestsHavePartners' /\ ExistTogether' /\ NoneSignedBefore'
  BY <1>1, <1>2, <1>3, <1>4
     DEF IInv, RequestsHavePartners, ExistTogether, NoneSignedBefore
<1>6. SigningReached' /\ ActivatingReached'
  BY <1>1, <1>2, <1>4 DEF IInv, TypeOK, Signing, RequestsHavePartners,
     SigningReached, Reached, ActivatingReached
<1>7. ActiveIsSigned'
  BY <1>1, <1>3, <1>4 DEF IInv, ActiveIsSigned, SignedBy
<1>8. ActivationIsWhole'
  <2> SUFFICES ASSUME NEW q \in Partner, ~Between(q)', q \notin split'
               PROVE  /\ contract'[q] = organization'[q]
                      /\ SignedBy(q)' # {} => contract'[q] = "ACTIVE"
    BY DEF ActivationIsWhole
  <2>1. CASE q = c.partner
    BY <1>1, <1>3, <1>4, <2>1
  <2>2. CASE q # c.partner
    <3>1. ~Between(q) /\ q \notin split
      BY <1>1, <2>2 DEF Between
    <3>2. QED
      BY <1>1, <1>4, <2>2, <3>1 DEF IInv, ActivationIsWhole, SignedBy
  <2>3. QED
    BY <2>1, <2>2
<1>9. QED
  BY <1>5, <1>6, <1>7, <1>8 DEF IInv

LEMMA StopActivatingIInv ==
    ASSUME IInv, TypeOK', NEW c \in activating, StopActivating(c)
    PROVE  IInv'
<1>1. /\ activating' = activating \ {c}
      /\ split' = split \cup {c.partner}
      /\ UNCHANGED <<partnerVars, request, issuedTo, signed, signing>>
  BY DEF StopActivating, requestVars
<1>2. \A q \in Partner : q \notin split' /\ ~Between(q)' => ~Between(q)
  BY <1>1 DEF Between
<1>3. ActivationIsWhole'
  BY <1>1, <1>2 DEF IInv, partnerVars, ActivationIsWhole, SignedBy
<1>4. QED
  BY <1>1, <1>3 DEF IInv, partnerVars, RequestsHavePartners, ExistTogether,
     NoneSignedBefore, SigningReached, Reached, ActivatingReached, ActiveIsSigned, SignedBy

-----------------------------------------------------------------------------
\* Calls on requests begin, write once, or stop.
LEMMA BeginSigningIInv ==
    ASSUME IInv, TypeOK', NEW w \in Worker, NEW r \in Request,
           NEW n \in {"SEND", "VIEW", "SIGN", "CANCEL"},
           request[r] # "ABSENT", BeginSigning(w, n, r)
    PROVE  IInv'
<1> DEFINE c0 == [by |-> w, next |-> n, request |-> r]
<1>1. /\ signing' = signing \cup {c0}
      /\ UNCHANGED <<partnerVars, request, issuedTo, signed, activating, split>>
  BY DEF BeginSigning, requestVars
<1>2. \A q \in Partner : Between(q)' = Between(q)
  BY <1>1 DEF Between
<1>3. SigningReached'
  BY <1>1 DEF IInv, SigningReached, Reached, partnerVars
<1>4. ActivationIsWhole'
  BY <1>1, <1>2 DEF IInv, partnerVars, ActivationIsWhole, SignedBy
<1>5. QED
  BY <1>1, <1>3, <1>4 DEF IInv, partnerVars, RequestsHavePartners, ExistTogether,
     NoneSignedBefore, ActivatingReached, ActiveIsSigned, SignedBy

LEMMA WriteRequestIInv ==
    ASSUME IInv, TypeOK', NEW c \in signing, WriteRequest(c)
    PROVE  IInv'
<1>1. /\ signing' = signing \ {c}
      /\ c.next \notin {"PARTNER", "ORGANIZATION"}
      /\ UNCHANGED <<partnerVars, issuedTo, signed, activating, split>>
  BY DEF WriteRequest
<1>2. TypeOK /\ c.request \in Request /\ request[c.request] # "ABSENT"
  BY DEF IInv, TypeOK, Signing, SigningReached, Reached
<1>3. PICK s \in {"SENT", "VIEWED", "CANCELLED"} :
          request' = [request EXCEPT ![c.request] = s]
  BY DEF WriteRequest
<1>4. \A r \in Request : request'[r] = "ABSENT" <=> request[r] = "ABSENT"
  BY <1>2, <1>3 DEF TypeOK
<1>5. \A q \in Partner : Between(q)' = Between(q)
  BY <1>1 DEF Between
<1>6. SigningReached'
  BY <1>1, <1>2, <1>4 DEF IInv, TypeOK, Signing, SigningReached, Reached, partnerVars
<1>7. ActivationIsWhole'
  BY <1>1, <1>5 DEF IInv, partnerVars, ActivationIsWhole, SignedBy
<1>8. QED
  BY <1>1, <1>4, <1>6, <1>7 DEF IInv, partnerVars, RequestsHavePartners,
     ExistTogether, NoneSignedBefore, ActivatingReached, ActiveIsSigned, SignedBy

LEMMA StopSigningIInv ==
    ASSUME IInv, TypeOK', NEW c \in signing, StopSigning(c)
    PROVE  IInv'
<1>1. /\ signing' = signing \ {c}
      /\ UNCHANGED <<partnerVars, request, issuedTo, signed, activating>>
      /\ split \subseteq split'
      /\ c.next \in {"PARTNER", "ORGANIZATION"} => issuedTo[c.request] \in split'
  BY DEF StopSigning, requestVars
<1>2. \A q \in Partner : q \notin split' /\ ~Between(q)' => ~Between(q)
  BY <1>1 DEF Between
<1>3. ActivationIsWhole'
  BY <1>1, <1>2 DEF IInv, partnerVars, ActivationIsWhole, SignedBy
<1>4. QED
  BY <1>1, <1>3 DEF IInv, partnerVars, RequestsHavePartners, ExistTogether,
     NoneSignedBefore, SigningReached, Reached, ActivatingReached, ActiveIsSigned, SignedBy

-----------------------------------------------------------------------------
\* The three updates of a signature.
LEMMA GoesFacts ==
    ASSUME TypeOK, NEW c \in signing, NEW n \in Todo, Goes(c, n)
    PROVE  \E d : /\ d.request = c.request /\ d.next = n
                  /\ signing' = (signing \ {c}) \cup {d}
<1>1. [c EXCEPT !.next = n].request = c.request /\ [c EXCEPT !.next = n].next = n
  BY DEF TypeOK, Signing
<1>2. QED
  BY <1>1 DEF Goes

LEMMA SignRequestIInv ==
    ASSUME IInv, TypeOK', NEW c \in signing, SignRequest(c)
    PROVE  IInv'
<1>1. /\ request' = [request EXCEPT ![c.request] = "COMPLETED"]
      /\ signed' = signed \cup {c.request}
      /\ Goes(c, "PARTNER")
      /\ c.next = "SIGN"
      /\ UNCHANGED <<partnerVars, issuedTo, activating, split>>
  BY DEF SignRequest
<1>2. /\ TypeOK /\ c.request \in Request /\ request[c.request] # "ABSENT"
      /\ "PARTNER" \in Todo
  BY DEF IInv, TypeOK, Signing, SigningReached, Reached, Todo
<1>3. PICK d : /\ d.request = c.request /\ d.next = "PARTNER"
               /\ signing' = (signing \ {c}) \cup {d}
  BY <1>1, <1>2, GoesFacts
<1>4. \A r \in Request : request'[r] = "ABSENT" <=> request[r] = "ABSENT"
  BY <1>1, <1>2 DEF TypeOK
<1>5. RequestsHavePartners' /\ ExistTogether' /\ NoneSignedBefore'
  BY <1>1, <1>2, <1>4
     DEF IInv, partnerVars, RequestsHavePartners, ExistTogether, NoneSignedBefore
<1>6. SigningReached'
  <2> SUFFICES ASSUME NEW e \in signing' PROVE Reached(e)'
    BY DEF SigningReached
  <2>1. CASE e = d
    BY <1>1, <1>2, <1>3, <1>4, <2>1 DEF Reached
  <2>2. CASE e \in signing
    BY <1>1, <1>2, <1>4, <2>2
       DEF IInv, TypeOK, Signing, SigningReached, Reached, partnerVars
  <2>3. QED
    BY <1>3, <2>1, <2>2
<1>7. ActivatingReached' /\ ActiveIsSigned'
  BY <1>1 DEF IInv, partnerVars, ActivatingReached, ActiveIsSigned, SignedBy
<1>8. ActivationIsWhole'
  <2> SUFFICES ASSUME NEW q \in Partner, ~Between(q)', q \notin split'
               PROVE  /\ contract'[q] = organization'[q]
                      /\ SignedBy(q)' # {} => contract'[q] = "ACTIVE"
    BY DEF ActivationIsWhole
  <2>1. q # issuedTo[c.request]
    <3>1. d \in signing' /\ d.next = "PARTNER" /\ issuedTo'[d.request] = issuedTo[c.request]
      BY <1>1, <1>3
    <3>2. \A e \in signing' : e.next = "PARTNER" => issuedTo'[e.request] # q
      BY DEF Between
    <3>3. QED
      BY <3>1, <3>2
  <2>2. ~Between(q)
    BY <1>1, <1>3 DEF Between
  <2>3. SignedBy(q)' = SignedBy(q)
    BY <1>1, <2>1 DEF SignedBy
  <2>4. QED
    BY <1>1, <2>2, <2>3 DEF IInv, partnerVars, ActivationIsWhole
<1>9. QED
  BY <1>5, <1>6, <1>7, <1>8 DEF IInv

LEMMA SignPartnerIInv ==
    ASSUME IInv, TypeOK', NEW c \in signing, SignPartner(c)
    PROVE  IInv'
<1> DEFINE p == issuedTo[c.request]
<1>1. /\ contract' = [contract EXCEPT ![p] = "ACTIVE"]
      /\ Goes(c, "ORGANIZATION")
      /\ c.next = "PARTNER"
      /\ UNCHANGED <<organization, activated, request, issuedTo, signed, activating, split>>
  BY DEF SignPartner, requestVars
<1>2. /\ TypeOK /\ c.request \in Request /\ c.request \in signed
      /\ p \in Partner /\ contract[p] # "ABSENT" /\ request[c.request] # "ABSENT"
      /\ "ORGANIZATION" \in Todo
  BY <1>1 DEF IInv, TypeOK, Signing, SigningReached, Reached, RequestsHavePartners, Todo
<1>3. PICK d : /\ d.request = c.request /\ d.next = "ORGANIZATION"
               /\ signing' = (signing \ {c}) \cup {d}
  BY <1>1, <1>2, GoesFacts
<1>4. /\ contract'[p] = "ACTIVE"
      /\ \A q \in Partner : q # p => contract'[q] = contract[q]
  BY <1>1, <1>2 DEF TypeOK
<1> HIDE DEF p
<1>5. RequestsHavePartners' /\ ExistTogether' /\ NoneSignedBefore'
  BY <1>1, <1>2, <1>4
     DEF IInv, RequestsHavePartners, ExistTogether, NoneSignedBefore
<1>6. SigningReached'
  <2> SUFFICES ASSUME NEW e \in signing' PROVE Reached(e)'
    BY DEF SigningReached
  <2>1. CASE e = d
    BY <1>1, <1>2, <1>3, <1>4, <2>1 DEF Reached, p
  <2>2. CASE e \in signing
    BY <1>1, <1>2, <1>4, <2>2
       DEF IInv, TypeOK, Signing, SigningReached, Reached, RequestsHavePartners
  <2>3. QED
    BY <1>3, <2>1, <2>2
<1>7. ActivatingReached'
  BY <1>1 DEF IInv, ActivatingReached
<1>8. c.request \in SignedBy(p)
  BY <1>2 DEF SignedBy, p
<1>9. ActiveIsSigned'
  BY <1>1, <1>4, <1>8 DEF IInv, ActiveIsSigned, SignedBy
<1>10. ActivationIsWhole'
  <2> SUFFICES ASSUME NEW q \in Partner, ~Between(q)', q \notin split'
               PROVE  /\ contract'[q] = organization'[q]
                      /\ SignedBy(q)' # {} => contract'[q] = "ACTIVE"
    BY DEF ActivationIsWhole
  <2>1. q # p
    <3>1. d \in signing' /\ d.next = "ORGANIZATION" /\ issuedTo'[d.request] = p
      BY <1>1, <1>3 DEF p
    <3>2. \A e \in signing' : e.next = "ORGANIZATION" => issuedTo'[e.request] # q
      BY DEF Between
    <3>3. QED
      BY <3>1, <3>2
  <2>2. ~Between(q)
    BY <1>1, <1>3, <2>1 DEF Between, p
  <2>3. QED
    BY <1>1, <1>4, <2>1, <2>2 DEF IInv, ActivationIsWhole, SignedBy
<1>11. QED
  BY <1>5, <1>6, <1>7, <1>9, <1>10 DEF IInv

LEMMA SignOrganizationIInv ==
    ASSUME IInv, TypeOK', NEW c \in signing, SignOrganization(c)
    PROVE  IInv'
<1> DEFINE p == issuedTo[c.request]
<1>1. /\ organization' = [organization EXCEPT ![p] = "ACTIVE"]
      /\ signing' = signing \ {c}
      /\ c.next = "ORGANIZATION"
      /\ UNCHANGED <<contract, activated, request, issuedTo, signed, activating, split>>
  BY DEF SignOrganization, requestVars
<1>2. /\ TypeOK /\ c.request \in Request /\ c.request \in signed
      /\ p \in Partner /\ contract[p] = "ACTIVE"
  BY <1>1 DEF IInv, TypeOK, Signing, SigningReached, Reached, RequestsHavePartners
<1>3. /\ organization'[p] = "ACTIVE"
      /\ \A q \in Partner : q # p => organization'[q] = organization[q]
  BY <1>1, <1>2 DEF TypeOK
<1> HIDE DEF p
<1>4. RequestsHavePartners' /\ ExistTogether' /\ NoneSignedBefore'
  BY <1>1, <1>2, <1>3
     DEF IInv, RequestsHavePartners, ExistTogether, NoneSignedBefore
<1>5. SigningReached' /\ ActivatingReached'
  BY <1>1, <1>2, <1>3 DEF IInv, TypeOK, Activating, SigningReached, Reached,
     ActivatingReached
<1>6. c.request \in SignedBy(p)
  BY <1>2 DEF SignedBy, p
<1>7. ActiveIsSigned'
  BY <1>1, <1>3, <1>6 DEF IInv, ActiveIsSigned, SignedBy
<1>8. ActivationIsWhole'
  <2> SUFFICES ASSUME NEW q \in Partner, ~Between(q)', q \notin split'
               PROVE  /\ contract'[q] = organization'[q]
                      /\ SignedBy(q)' # {} => contract'[q] = "ACTIVE"
    BY DEF ActivationIsWhole
  <2>1. CASE q = p
    BY <1>1, <1>2, <1>3, <2>1
  <2>2. CASE q # p
    <3>1. ~Between(q)
      BY <1>1, <2>2 DEF Between, p
    <3>2. QED
      BY <1>1, <1>3, <2>2, <3>1 DEF IInv, ActivationIsWhole, SignedBy
  <2>3. QED
    BY <2>1, <2>2
<1>9. QED
  BY <1>4, <1>5, <1>7, <1>8 DEF IInv

-----------------------------------------------------------------------------
LEMMA StepIInv == IInv /\ [Next]_vars => IInv'
<1> SUFFICES ASSUME IInv, [Next]_vars PROVE IInv'
  OBVIOUS
<1>0. TypeOK'
  BY StepTypeOK
<1>1. ASSUME NEW p \in Partner, CreatePartner(p, "ABSENT") \/ CreatePartner(p, "DRAFT")
      PROVE  IInv'
  BY <1>0, <1>1, CreateIInv
<1>2. ASSUME NEW r \in Request, Expire(r) PROVE IInv'
  BY <1>0, <1>2, QuietIInv DEF Expire, activeVars, requestVars
<1>3. ASSUME NEW r \in Request, NEW p \in Partner, Issue(r, p) PROVE IInv'
  BY <1>0, <1>3, IssueIInv
<1>4. ASSUME NEW w \in Worker, Staff(w) PROVE IInv'
  BY <1>0, <1>4, ActivateIInv DEF Staff
<1>5. ASSUME NEW w \in Worker, Owner(w) PROVE IInv'
  <2>1. UNCHANGED activeVars
    BY <1>5 DEF Owner, SubmitKYB, EditKYB, BeginKYB, activeVars, requestVars
  <2>2. QED
    BY <1>0, <2>1, QuietIInv
<1>6. ASSUME NEW w \in Worker, Signer(w) PROVE IInv'
  <2>1. PICK r \in Request, n \in {"SEND", "VIEW", "SIGN", "CANCEL"} :
            request[r] # "ABSENT" /\ BeginSigning(w, n, r)
    BY <1>6 DEF Signer, Send, View, Sign, Cancel
  <2>2. QED
    BY <1>0, <2>1, BeginSigningIInv
<1>7. ASSUME NEW c \in activating, ActivateContract(c) \/ StopActivating(c)
      PROVE  IInv'
  BY <1>0, <1>7, ActivateContractIInv, StopActivatingIInv
<1>8. ASSUME NEW c \in applying, WriteKYB(c) \/ StopApplying(c) PROVE IInv'
  BY <1>0, <1>8, QuietIInv DEF WriteKYB, StopApplying, activeVars, requestVars
<1>9. ASSUME NEW c \in signing,
             \/ WriteRequest(c) \/ SignRequest(c) \/ SignPartner(c)
             \/ SignOrganization(c) \/ StopSigning(c)
      PROVE  IInv'
  BY <1>0, <1>9, WriteRequestIInv, SignRequestIInv, SignPartnerIInv,
     SignOrganizationIInv, StopSigningIInv
<1>10. CASE UNCHANGED vars
  BY <1>0, <1>10, QuietIInv DEF vars, activeVars, partnerVars
<1>11. QED
  BY <1>1, <1>2, <1>3, <1>4, <1>5, <1>6, <1>7, <1>8, <1>9, <1>10 DEF Next

LEMMA SpecIInv == Spec => []IInv
BY InitIInv, StepIInv, PTL DEF Spec

-----------------------------------------------------------------------------
LEMMA InitFresh == Init => FreshIInv
BY InitTypeOK DEF Init, FreshIInv, ApplicationsExist, SigningCurrent, ApplyingCurrent

\* No call begins, and no row that calls have read changes.
LEMMA QuietFresh ==
    ASSUME FreshIInv, TypeOK', UNCHANGED <<request, kyb, raced>>,
           \A p \in Partner : organization'[p] = "ABSENT" => organization[p] = "ABSENT",
           signing' \subseteq signing, applying' \subseteq applying
    PROVE  FreshIInv'
BY DEF FreshIInv, ApplicationsExist, SigningCurrent, Current, ApplyingCurrent

LEMMA StepFresh == IInv /\ FreshIInv /\ [Next]_vars => FreshIInv'
<1> SUFFICES ASSUME IInv, FreshIInv, [Next]_vars PROVE FreshIInv'
  OBVIOUS
<1>0. TypeOK /\ TypeOK'
  BY StepTypeOK DEF IInv
<1>1. ASSUME NEW p \in Partner, NEW s \in {"ABSENT", "DRAFT"}, CreatePartner(p, s)
      PROVE  FreshIInv'
  <2>1. /\ organization[p] = "ABSENT"
        /\ kyb' = [kyb EXCEPT ![p] = s]
        /\ organization' = [organization EXCEPT ![p] = "DRAFT"]
        /\ UNCHANGED <<request, signing, applying, raced>>
    BY <1>1 DEF CreatePartner, requestVars
  <2>2. \A c \in applying : c.partner \in Partner /\ c.partner # p
    BY <1>0, <2>1 DEF TypeOK, Applying, FreshIInv, ApplicationsExist
  <2>3. \A c \in applying : kyb'[c.partner] = kyb[c.partner]
    BY <1>0, <2>1, <2>2 DEF TypeOK
  <2>4. ApplicationsExist'
    BY <1>0, <2>1, <2>3 DEF TypeOK, FreshIInv, ApplicationsExist
  <2>5. QED
    BY <1>0, <2>1, <2>3, <2>4 DEF FreshIInv, SigningCurrent, Current, ApplyingCurrent
<1>2. ASSUME NEW r \in Request, Expire(r) PROVE FreshIInv'
  BY <1>0, <1>2, QuietFresh DEF Expire, requestVars, partnerVars, kybVars
<1>3. ASSUME NEW r \in Request, NEW p \in Partner, Issue(r, p) PROVE FreshIInv'
  <2>1. /\ request[r] = "ABSENT"
        /\ request' = [request EXCEPT ![r] = "DRAFT"]
        /\ UNCHANGED <<organization, kyb, signing, applying, raced>>
    BY <1>3 DEF Issue, partnerVars, kybVars
  <2>2. \A c \in signing : request'[c.request] = request[c.request]
    BY <1>0, <2>1 DEF TypeOK, Signing, IInv, SigningReached, Reached
  <2>3. QED
    BY <1>0, <2>1, <2>2
       DEF FreshIInv, ApplicationsExist, SigningCurrent, Current, ApplyingCurrent
<1>4. ASSUME NEW w \in Worker, Staff(w) PROVE FreshIInv'
  <2>1. PICK p \in Partner : Activate(w, p)
    BY <1>4 DEF Staff
  <2>2. \A q \in Partner : organization'[q] = "ABSENT" => organization[q] = "ABSENT"
    BY <1>0, <2>1 DEF Activate, TypeOK
  <2>3. QED
    BY <1>0, <2>1, <2>2, QuietFresh DEF Activate, requestVars, kybVars
<1>5. ASSUME NEW w \in Worker, Owner(w) PROVE FreshIInv'
  <2>1. PICK p \in Partner, d \in Documents, n \in {"EDIT", "SUBMIT"} :
            kyb[p] = "DRAFT" /\ BeginKYB(w, n, p, d)
    BY <1>0, <1>5 DEF Owner, SubmitKYB, EditKYB, TypeOK
  <2> DEFINE c0 == [by |-> w, next |-> n, partner |-> p, documents |-> d]
  <2>2. /\ applying' = applying \cup {c0}
        /\ raced \subseteq raced'
        /\ (\E c \in applying : c.partner = p) => p \in raced'
        /\ UNCHANGED <<organization, kyb, request, signing>>
    BY <2>1 DEF BeginKYB, partnerVars, kybVars, requestVars
  <2>3. ApplicationsExist' /\ SigningCurrent'
    BY <2>1, <2>2 DEF FreshIInv, ApplicationsExist, SigningCurrent, Current
  <2>4. ApplyingCurrent'
    BY <2>1, <2>2 DEF FreshIInv, ApplyingCurrent
  <2>5. QED
    BY <1>0, <2>3, <2>4 DEF FreshIInv
<1>6. ASSUME NEW w \in Worker, Signer(w) PROVE FreshIInv'
  <2>1. PICK r \in Request, n \in {"SEND", "VIEW", "SIGN", "CANCEL"} :
            /\ n \in {"SEND", "VIEW", "SIGN"} => request[r] \notin Closed
            /\ n = "CANCEL" => request[r] # "COMPLETED"
            /\ BeginSigning(w, n, r)
    BY <1>6 DEF Signer, Send, View, Sign, Cancel, Closed
  <2> DEFINE c0 == [by |-> w, next |-> n, request |-> r]
  <2>2. /\ signing' = signing \cup {c0}
        /\ raced \subseteq raced'
        /\ (\E c \in signing : c.request = r) => r \in raced'
        /\ UNCHANGED <<organization, kyb, request, applying>>
    BY <2>1 DEF BeginSigning, partnerVars, kybVars, requestVars
  <2>3. ApplicationsExist' /\ ApplyingCurrent'
    BY <2>2 DEF FreshIInv, ApplicationsExist, ApplyingCurrent
  <2>4. SigningCurrent'
    BY <2>1, <2>2 DEF FreshIInv, SigningCurrent, Current
  <2>5. QED
    BY <1>0, <2>3, <2>4 DEF FreshIInv
<1>7. ASSUME NEW c \in activating, ActivateContract(c) \/ StopActivating(c)
      PROVE  FreshIInv'
  BY <1>0, <1>7, QuietFresh
     DEF ActivateContract, StopActivating, partnerVars, requestVars, kybVars
<1>8. ASSUME NEW c \in applying, WriteKYB(c) PROVE FreshIInv'
  <2>1. /\ applying' = applying \ {c}
        /\ UNCHANGED <<organization, request, signing, raced>>
    BY <1>8 DEF WriteKYB, partnerVars, requestVars
  <2>2. \A p \in Partner : p # c.partner => kyb'[p] = kyb[p]
    BY <1>0, <1>8 DEF WriteKYB, TypeOK
  <2>3. \A p \in Partner : kyb'[p] # "ABSENT" => kyb[p] # "ABSENT"
    BY <1>0, <2>2 DEF FreshIInv, ApplicationsExist
  <2>4. kyb'[c.partner] # "ABSENT"
    BY <1>0, <1>8 DEF WriteKYB, TypeOK, Applying, FreshIInv, ApplicationsExist
  <2>5. ApplicationsExist'
    BY <1>0, <2>1, <2>2, <2>3, <2>4 DEF TypeOK, Applying, FreshIInv, ApplicationsExist
  <2>6. ApplyingCurrent'
    BY <1>0, <2>1, <2>2 DEF TypeOK, Applying, FreshIInv, ApplyingCurrent
  <2>7. SigningCurrent'
    BY <2>1 DEF FreshIInv, SigningCurrent, Current
  <2>8. QED
    BY <1>0, <2>5, <2>6, <2>7 DEF FreshIInv
<1>9. ASSUME NEW c \in applying, StopApplying(c) PROVE FreshIInv'
  BY <1>0, <1>9, QuietFresh DEF StopApplying, partnerVars, requestVars, kybVars
<1>10. ASSUME NEW c \in signing, WriteRequest(c) PROVE FreshIInv'
  <2>1. /\ signing' = signing \ {c}
        /\ UNCHANGED <<organization, kyb, applying, raced>>
    BY <1>10 DEF WriteRequest, partnerVars, kybVars
  <2>2. \A r \in Request : r # c.request => request'[r] = request[r]
    BY <1>0, <1>10 DEF WriteRequest, TypeOK
  <2>3. SigningCurrent'
    BY <1>0, <2>1, <2>2 DEF TypeOK, Signing, FreshIInv, SigningCurrent, Current
  <2>4. QED
    BY <1>0, <2>1, <2>3 DEF FreshIInv, ApplicationsExist, ApplyingCurrent
<1>11. ASSUME NEW c \in signing, SignRequest(c) \/ SignPartner(c) PROVE FreshIInv'
  <2>1. PICK n \in {"PARTNER", "ORGANIZATION"} : Goes(c, n)
    BY <1>11 DEF SignRequest, SignPartner
  <2>2. PICK d : /\ d.request = c.request /\ d.next = n
                 /\ signing' = (signing \ {c}) \cup {d}
    BY <1>0, <2>1, GoesFacts DEF Todo
  <2>3. /\ UNCHANGED <<organization, kyb, applying, raced>>
        /\ \A r \in Request : r # c.request => request'[r] = request[r]
    BY <1>0, <1>11 DEF SignRequest, SignPartner, partnerVars, kybVars, requestVars, TypeOK
  <2>4. SigningCurrent'
    BY <1>0, <2>2, <2>3 DEF TypeOK, Signing, FreshIInv, SigningCurrent, Current
  <2>5. QED
    BY <1>0, <2>3, <2>4 DEF FreshIInv, ApplicationsExist, ApplyingCurrent
<1>12. ASSUME NEW c \in signing, SignOrganization(c) \/ StopSigning(c) PROVE FreshIInv'
  <2>1. \A q \in Partner : organization'[q] = "ABSENT" => organization[q] = "ABSENT"
    BY <1>0, <1>12 DEF SignOrganization, StopSigning, partnerVars, TypeOK
  <2>2. QED
    BY <1>0, <1>12, <2>1, QuietFresh
       DEF SignOrganization, StopSigning, partnerVars, requestVars, kybVars
<1>13. CASE UNCHANGED vars
  BY <1>0, <1>13, QuietFresh DEF vars
<1>14. QED
  BY <1>1, <1>2, <1>3, <1>4, <1>5, <1>6, <1>7, <1>8, <1>9, <1>10, <1>11, <1>12,
     <1>13 DEF Next

LEMMA SpecFresh == Spec => [](IInv /\ FreshIInv)
<1>1. IInv /\ FreshIInv /\ [Next]_vars => (IInv /\ FreshIInv)'
  BY StepIInv, StepFresh
<1>2. Init => IInv /\ FreshIInv
  BY InitIInv, InitFresh
<1>3. QED
  BY <1>1, <1>2, PTL DEF Spec

-----------------------------------------------------------------------------
\* Only the one call on a request that did not race changes it, and that call
\* does not touch a finished one.
LEMMA StepFinished == IInv /\ FreshIInv /\ [Next]_vars => Finished
<1> SUFFICES ASSUME IInv, FreshIInv, [Next]_vars, NEW r \in Request,
                    request[r] \in Closed, r \notin raced'
             PROVE  request'[r] = request[r] /\ evidence'[r] = evidence[r]
  BY DEF Finished
<1>0. TypeOK
  BY DEF IInv
<1>1. ASSUME NEW q \in Request, NEW p \in Partner, Issue(q, p)
      PROVE  request'[r] = request[r] /\ evidence'[r] = evidence[r]
  <2>1. q # r
    BY <1>1 DEF Issue, Closed
  <2>2. QED
    BY <1>0, <1>1, <2>1 DEF Issue, TypeOK
<1>2. ASSUME NEW c \in signing, WriteRequest(c) \/ SignRequest(c)
      PROVE  request'[r] = request[r] /\ evidence'[r] = evidence[r]
  <2>1. raced' = raced /\ c.request \in Request
    BY <1>0, <1>2 DEF WriteRequest, SignRequest, TypeOK, Signing
  <2>2. CASE c.request # r
    BY <1>0, <1>2, <2>2 DEF WriteRequest, SignRequest, TypeOK
  <2>3. CASE c.request = r
    <3>1. Current(c)
      BY <2>1, <2>3 DEF FreshIInv, SigningCurrent
    <3>2. c.next = "CANCEL" /\ request[r] = "CANCELLED" /\ WriteRequest(c)
      BY <1>2, <2>3, <3>1 DEF Current, Closed, WriteRequest, SignRequest
    <3>3. QED
      BY <1>0, <2>3, <3>2 DEF WriteRequest, TypeOK
  <2>4. QED
    BY <2>2, <2>3
<1>3. ASSUME UNCHANGED <<request, evidence>>
      PROVE  request'[r] = request[r] /\ evidence'[r] = evidence[r]
  BY <1>3
<1>4. \/ \E q \in Request, p \in Partner : Issue(q, p)
      \/ \E c \in signing : WriteRequest(c) \/ SignRequest(c)
      \/ UNCHANGED <<request, evidence>>
  BY DEF Next, CreatePartner, Expire, Staff, Activate, Owner, SubmitKYB, EditKYB,
     BeginKYB, Signer, Send, View, Sign, Cancel, BeginSigning, ActivateContract,
     StopActivating, WriteKYB, StopApplying, SignPartner, SignOrganization,
     StopSigning, requestVars, vars
<1>5. QED
  BY <1>1, <1>2, <1>3, <1>4

LEMMA StepFrozen == IInv /\ FreshIInv /\ [Next]_vars => Frozen
<1> SUFFICES ASSUME IInv, FreshIInv, [Next]_vars, NEW p \in Partner,
                    kyb[p] = "SUBMITTED", p \notin raced'
             PROVE  kyb'[p] = kyb[p] /\ documents'[p] = documents[p]
  BY DEF Frozen
<1>0. TypeOK
  BY DEF IInv
<1>1. ASSUME NEW q \in Partner, NEW s \in {"ABSENT", "DRAFT"}, CreatePartner(q, s)
      PROVE  kyb'[p] = kyb[p] /\ documents'[p] = documents[p]
  <2>1. q # p
    BY <1>1 DEF CreatePartner, FreshIInv, ApplicationsExist
  <2>2. QED
    BY <1>0, <1>1, <2>1 DEF CreatePartner, TypeOK
<1>2. ASSUME NEW c \in applying, WriteKYB(c)
      PROVE  kyb'[p] = kyb[p] /\ documents'[p] = documents[p]
  <2>1. c.partner # p
    BY <1>2 DEF WriteKYB, FreshIInv, ApplyingCurrent
  <2>2. QED
    BY <1>0, <1>2, <2>1 DEF WriteKYB, TypeOK
<1>3. ASSUME UNCHANGED kybVars
      PROVE  kyb'[p] = kyb[p] /\ documents'[p] = documents[p]
  BY <1>3 DEF kybVars
<1>4. \/ \E q \in Partner, s \in {"ABSENT", "DRAFT"} : CreatePartner(q, s)
      \/ \E c \in applying : WriteKYB(c)
      \/ UNCHANGED kybVars
  BY DEF Next, Expire, Issue, Staff, Activate, Owner, SubmitKYB, EditKYB,
     BeginKYB, Signer, Send, View, Sign, Cancel, BeginSigning, ActivateContract,
     StopActivating, StopApplying, WriteRequest, SignRequest, SignPartner,
     SignOrganization, StopSigning, kybVars, vars
<1>5. QED
  BY <1>1, <1>2, <1>3, <1>4

-----------------------------------------------------------------------------
\* The variables always have their types.
THEOREM TypeCorrect == Spec => []TypeOK
BY SpecIInv, PTL DEF IInv

\* completeSigning and setStatus: whatever overlaps or stops half-way, an
\* active partner was activated by staff or has signed.
THEOREM ActiveIsSignedCorrect == Spec => []ActiveIsSigned
BY SpecIInv, PTL DEF IInv

\* completeSigning and setStatus: partner and organization are activated
\* together and after every signature, unless a call stops in between.
THEOREM ActivationCorrect == Spec => []ActivationIsWhole
BY SpecIInv, PTL DEF IInv

\* SigningService: a signed or cancelled request stays as it is until two
\* calls on it overlap.
THEOREM FinalStaysCorrect == Spec => FinalStays
<1>1. IInv /\ FreshIInv /\ [Next]_vars => [Finished]_vars
  BY StepFinished
<1>2. QED
  BY <1>1, SpecFresh, PTL DEF Spec, FinalStays

\* updateKYB and submit: a submitted application stays as it is until two
\* calls on it overlap.
THEOREM SubmittedIsFrozenCorrect == Spec => SubmittedIsFrozen
<1>1. IInv /\ FreshIInv /\ [Next]_vars => [Frozen]_vars
  BY StepFrozen
<1>2. QED
  BY <1>1, SpecFresh, PTL DEF Spec, SubmittedIsFrozen
=============================================================================
