----------------------------- MODULE Onboarding -----------------------------
(***************************************************************************)
(* How a provider becomes an active partner: registration or creation by   *)
(* staff, the KYB application, the contract that is sent, viewed, signed   *)
(* or cancelled through a link (SigningService), and activation by staff   *)
(* (PartnersService.setStatus).                                            *)
(*                                                                         *)
(* A signature is three updates, of the request, of the partner and of the *)
(* organization, and an activation by staff two, in the other order; none  *)
(* of them is in a transaction.  The other handlers read, check and write  *)
(* once.  A call in progress is a record of what it does next.             *)
(***************************************************************************)

CONSTANTS
    Partner,        \* ids of the organizations that can be created (a bound)
    NoPartner,      \* the partner of a request that does not exist
    Request,        \* ids of the signing requests that can be issued (a bound)
    Documents,      \* contents of a KYB application
    Worker          \* the calls that can be in progress at one time

ASSUME OnboardingAssumption == NoPartner \notin Partner

VARIABLES
    organization,   \* organizations.status, "ABSENT" before the insert
    contract,       \* partners.contract_status, "ABSENT" before the insert
    kyb,            \* kybs.status of the partner, "ABSENT" if it has none
    documents,      \* the columns of the application that its owner edits
    request,        \* signing_requests.status, "ABSENT" before the insert
    issuedTo,       \* signing_requests.partner_id
    viewed,         \* requests whose viewed_at is set
    signed,         \* requests whose signed_at is set
    evidence,       \* whose address and agent the request has kept
    late,           \* requests that are past expires_at
    signing,        \* calls on requests
    activating,     \* activations by staff between their two updates
    applying,       \* calls on KYB applications
    activated,      \* ghost: partners that staff have activated
    raced,          \* ghost: requests, and applications (by partner), on
                    \* which two calls have been in progress at once
    split           \* ghost: partners of which a call has stopped half-way

partnerVars == <<organization, contract, activated>>
kybVars == <<kyb, documents>>
requestVars == <<request, issuedTo, viewed, signed, evidence>>
vars == <<organization, contract, kyb, documents, request, issuedTo, viewed,
          signed, evidence, late, signing, activating, applying, activated,
          raced, split>>

\* The part of the enum ContractStatus that is ever written.  Suspension asks
\* for "EXPIRED", which the enum does not have: it fails and changes nothing.
ContractStatus == {"DRAFT", "ACTIVE"}
\* The part of the enum KYBStatus that is ever written.
KYBStatus == {"DRAFT", "SUBMITTED"}
\* The part of the enum SigningStatus that is ever written.
SigningStatus == {"DRAFT", "SENT", "VIEWED", "COMPLETED", "CANCELLED"}

Closed == {"COMPLETED", "CANCELLED"}

\* What a call on a request does next.
Todo == {"SEND", "VIEW", "SIGN", "CANCEL", "PARTNER", "ORGANIZATION"}

Signing == [by : Worker, next : Todo, request : Request]
Activating == [by : Worker, partner : Partner]
Applying == [by : Worker, next : {"EDIT", "SUBMIT"}, partner : Partner,
             documents : Documents]

Free(w) == /\ \A c \in signing : c.by # w
           /\ \A c \in activating : c.by # w
           /\ \A c \in applying : c.by # w

Init ==
    /\ organization = [p \in Partner |-> "ABSENT"]
    /\ contract = [p \in Partner |-> "ABSENT"]
    /\ kyb = [p \in Partner |-> "ABSENT"]
    /\ documents \in [Partner -> Documents]
    /\ request = [r \in Request |-> "ABSENT"]
    /\ issuedTo = [r \in Request |-> NoPartner]
    /\ viewed = {} /\ signed = {} /\ late = {}
    /\ evidence = [r \in Request |-> "NONE"]
    /\ signing = {} /\ activating = {} /\ applying = {}
    /\ activated = {} /\ raced = {} /\ split = {}

-----------------------------------------------------------------------------
(* Partners and their applications.                                        *)

\* register inserts organization, partner and application in one transaction;
\* staff create organization and partner without an application.
CreatePartner(p, status) ==
    /\ organization[p] = "ABSENT"
    /\ organization' = [organization EXCEPT ![p] = "DRAFT"]
    /\ contract' = [contract EXCEPT ![p] = "DRAFT"]
    /\ kyb' = [kyb EXCEPT ![p] = status]
    /\ UNCHANGED <<documents, requestVars, late, signing, activating, applying,
                   activated, raced, split>>

\* setStatus by staff: the organization first.
Activate(w, p) ==
    /\ Free(w)
    /\ organization[p] # "ABSENT"
    /\ organization' = [organization EXCEPT ![p] = "ACTIVE"]
    /\ activated' = activated \cup {p}
    /\ activating' = activating \cup {[by |-> w, partner |-> p]}
    /\ UNCHANGED <<contract, kybVars, requestVars, late, signing, applying,
                   raced, split>>

ActivateContract(c) ==
    /\ contract' = [contract EXCEPT ![c.partner] = "ACTIVE"]
    /\ activating' = activating \ {c}
    /\ UNCHANGED <<organization, activated, kybVars, requestVars, late, signing,
                   applying, raced, split>>

\* A call on the application of p has passed its check.
BeginKYB(w, next, p, d) ==
    /\ Free(w)
    /\ applying' = applying \cup {[by |-> w, next |-> next, partner |-> p,
                                   documents |-> d]}
    /\ raced' = IF \E c \in applying : c.partner = p THEN raced \cup {p} ELSE raced
    /\ UNCHANGED <<partnerVars, kybVars, requestVars, late, signing, activating,
                   split>>

\* Mutant: an application that is under review can be edited.
BugEditAnyTime(w, p, d) ==
    /\ kyb[p] # "ABSENT"
    /\ BeginKYB(w, "EDIT", p, d)

\* updateKYB and submit also accept REJECTED, which nothing writes.
EditKYB(w, p, d) ==
    /\ kyb[p] = "DRAFT"
    /\ BeginKYB(w, "EDIT", p, d)

SubmitKYB(w, p) ==
    /\ kyb[p] = "DRAFT"
    /\ BeginKYB(w, "SUBMIT", p, documents[p])

WriteKYB(c) ==
    /\ IF c.next = "EDIT"
       THEN documents' = [documents EXCEPT ![c.partner] = c.documents] /\ UNCHANGED kyb
       ELSE kyb' = [kyb EXCEPT ![c.partner] = "SUBMITTED"] /\ UNCHANGED documents
    /\ applying' = applying \ {c}
    /\ UNCHANGED <<partnerVars, requestVars, late, signing, activating, raced, split>>

-----------------------------------------------------------------------------
(* Signing requests.                                                       *)

\* createSigningRequest: the partner exists, whatever its status.
Issue(r, p) ==
    /\ request[r] = "ABSENT"
    /\ contract[p] # "ABSENT"
    /\ request' = [request EXCEPT ![r] = "DRAFT"]
    /\ issuedTo' = [issuedTo EXCEPT ![r] = p]
    /\ UNCHANGED <<partnerVars, kybVars, viewed, signed, evidence, late, signing,
                   activating, applying, raced, split>>

\* Time passes.
Expire(r) ==
    /\ request[r] # "ABSENT"
    /\ late' = late \cup {r}
    /\ UNCHANGED <<partnerVars, kybVars, requestVars, signing, activating,
                   applying, raced, split>>

\* A call on request r has passed its check.
BeginSigning(w, next, r) ==
    /\ Free(w)
    /\ signing' = signing \cup {[by |-> w, next |-> next, request |-> r]}
    /\ raced' = IF \E c \in signing : c.request = r THEN raced \cup {r} ELSE raced
    /\ UNCHANGED <<partnerVars, kybVars, requestVars, late, activating, applying,
                   split>>

Send(w, r) ==
    /\ request[r] = "DRAFT"
    /\ r \notin late
    /\ BeginSigning(w, "SEND", r)

\* markViewed writes only the first time.
View(w, r) ==
    /\ request[r] \notin Closed \cup {"ABSENT"}
    /\ r \notin late \cup viewed
    /\ BeginSigning(w, "VIEW", r)

\* Mutant: a cancelled request can be signed.
BugSignCancelled(w, r) ==
    /\ request[r] \notin {"COMPLETED", "ABSENT"}
    /\ r \notin late
    /\ BeginSigning(w, "SIGN", r)

\* Mutant: the updates start with the partner, before the signature is stored.
BugActivateFirst(w, r) ==
    /\ request[r] \notin Closed \cup {"ABSENT"}
    /\ r \notin late
    /\ BeginSigning(w, "PARTNER", r)

\* completeSigning: neither sent nor viewed is required.
Sign(w, r) ==
    /\ request[r] \notin Closed \cup {"ABSENT"}
    /\ r \notin late
    /\ BeginSigning(w, "SIGN", r)

Cancel(w, r) ==
    /\ request[r] \notin {"COMPLETED", "ABSENT"}
    /\ BeginSigning(w, "CANCEL", r)

\* The one update of send, of markViewed and of cancelRequest.
WriteRequest(c) ==
    /\ c.next \in {"SEND", "VIEW", "CANCEL"}
    /\ request' = [request EXCEPT ![c.request] =
                     CASE c.next = "SEND" -> "SENT"
                       [] c.next = "VIEW" -> "VIEWED"
                       [] OTHER           -> "CANCELLED"]
    /\ IF c.next = "VIEW"
       THEN /\ viewed' = viewed \cup {c.request}
            /\ evidence' = [evidence EXCEPT ![c.request] = "VIEWER"]
       ELSE UNCHANGED <<viewed, evidence>>
    /\ signing' = signing \ {c}
    /\ UNCHANGED <<partnerVars, kybVars, issuedTo, signed, late, activating,
                   applying, raced, split>>

\* Call c goes on to the update `next`.
Goes(c, next) == signing' = (signing \ {c}) \cup {[c EXCEPT !.next = next]}

\* The three updates of completeSigning.
SignRequest(c) ==
    /\ c.next = "SIGN"
    /\ request' = [request EXCEPT ![c.request] = "COMPLETED"]
    /\ signed' = signed \cup {c.request}
    /\ evidence' = [evidence EXCEPT ![c.request] = "SIGNER"]
    /\ Goes(c, "PARTNER")
    /\ UNCHANGED <<partnerVars, kybVars, issuedTo, viewed, late, activating,
                   applying, raced, split>>

SignPartner(c) ==
    /\ c.next = "PARTNER"
    /\ contract' = [contract EXCEPT ![issuedTo[c.request]] = "ACTIVE"]
    /\ Goes(c, "ORGANIZATION")
    /\ UNCHANGED <<organization, activated, kybVars, requestVars, late, activating,
                   applying, raced, split>>

\* Mutant: the last update is forgotten.
BugForgetOrganization(c) ==
    /\ c.next = "ORGANIZATION"
    /\ signing' = signing \ {c}
    /\ UNCHANGED <<partnerVars, kybVars, requestVars, late, activating, applying,
                   raced, split>>

SignOrganization(c) ==
    /\ c.next = "ORGANIZATION"
    /\ organization' = [organization EXCEPT ![issuedTo[c.request]] = "ACTIVE"]
    /\ signing' = signing \ {c}
    /\ UNCHANGED <<contract, activated, kybVars, requestVars, late, activating,
                   applying, raced, split>>

-----------------------------------------------------------------------------
(* A call stops: a lost connection or a killed process.                    *)

StopSigning(c) ==
    /\ signing' = signing \ {c}
    /\ split' = IF c.next \in {"PARTNER", "ORGANIZATION"}
                THEN split \cup {issuedTo[c.request]} ELSE split
    /\ UNCHANGED <<partnerVars, kybVars, requestVars, late, activating, applying, raced>>

StopActivating(c) ==
    /\ activating' = activating \ {c}
    /\ split' = split \cup {c.partner}
    /\ UNCHANGED <<partnerVars, kybVars, requestVars, late, signing, applying, raced>>

StopApplying(c) ==
    /\ applying' = applying \ {c}
    /\ UNCHANGED <<partnerVars, kybVars, requestVars, late, signing, activating,
                   raced, split>>

Staff(w) == \E p \in Partner : Activate(w, p)

Owner(w) == \E p \in Partner : SubmitKYB(w, p) \/ \E d \in Documents : EditKYB(w, p, d)

Signer(w) == \E r \in Request : Send(w, r) \/ View(w, r) \/ Sign(w, r) \/ Cancel(w, r)

Next ==
    \/ \E p \in Partner : CreatePartner(p, "ABSENT") \/ CreatePartner(p, "DRAFT")
    \/ \E r \in Request : Expire(r) \/ \E p \in Partner : Issue(r, p)
    \/ \E w \in Worker : Staff(w) \/ Owner(w) \/ Signer(w)
    \/ \E c \in activating : ActivateContract(c) \/ StopActivating(c)
    \/ \E c \in applying : WriteKYB(c) \/ StopApplying(c)
    \/ \E c \in signing : \/ WriteRequest(c) \/ SignRequest(c) \/ SignPartner(c)
                          \/ SignOrganization(c) \/ StopSigning(c)

Spec == Init /\ [][Next]_vars

-----------------------------------------------------------------------------
\* Every variable holds what the code can write to it.
TypeOK ==
    /\ organization \in [Partner -> ContractStatus \cup {"ABSENT"}]
    /\ contract \in [Partner -> ContractStatus \cup {"ABSENT"}]
    /\ kyb \in [Partner -> KYBStatus \cup {"ABSENT"}]
    /\ documents \in [Partner -> Documents]
    /\ request \in [Request -> SigningStatus \cup {"ABSENT"}]
    /\ issuedTo \in [Request -> Partner \cup {NoPartner}]
    /\ viewed \subseteq Request /\ signed \subseteq Request /\ late \subseteq Request
    /\ evidence \in [Request -> {"NONE", "VIEWER", "SIGNER"}]
    /\ signing \subseteq Signing
    /\ activating \subseteq Activating
    /\ applying \subseteq Applying
    /\ activated \subseteq Partner /\ split \subseteq Partner
    /\ raced \subseteq Request \cup Partner

SignedBy(p) == {r \in signed : issuedTo[r] = p}

\* A partner and its organization are active only if staff activated them or
\* a contract of that partner has been signed, whatever raced or stopped
\* half-way: the signature is stored before anything is activated.
ActiveIsSigned ==
    \A p \in Partner :
        "ACTIVE" \in {contract[p], organization[p]} =>
            p \in activated \/ SignedBy(p) # {}

\* A call that is between its updates of partner p.
Between(p) ==
    \/ \E c \in activating : c.partner = p
    \/ \E c \in signing : /\ c.next \in {"PARTNER", "ORGANIZATION"}
                          /\ issuedTo[c.request] = p

\* Activation is whole although its updates are apart, taken in two orders by
\* two services, and overlap: once no call is between its updates of a partner,
\* and unless one has stopped there, partner and organization have the same
\* status, and they are active if a contract was signed.
ActivationIsWhole ==
    \A p \in Partner :
        ~Between(p) /\ p \notin split =>
            /\ contract[p] = organization[p]
            /\ SignedBy(p) # {} => contract[p] = "ACTIVE"

\* A request that was signed or cancelled stays as it is, with the address of
\* its signer, until two calls on it overlap: send, markViewed, completeSigning
\* and cancelRequest write by the id of the row alone.
Finished ==
    \A r \in Request :
        request[r] \in Closed /\ r \notin raced' =>
            /\ request'[r] = request[r]
            /\ evidence'[r] = evidence[r]

FinalStays == [][Finished]_vars

\* What was submitted for review is what is reviewed: the application does not
\* change any more, until two calls on it overlap.
Frozen ==
    \A p \in Partner :
        kyb[p] = "SUBMITTED" /\ p \notin raced' =>
            /\ kyb'[p] = kyb[p]
            /\ documents'[p] = documents[p]

SubmittedIsFrozen == [][Frozen]_vars
=============================================================================
