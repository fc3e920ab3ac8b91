------------------------------ MODULE Accounts ------------------------------
(***************************************************************************)
(* One user: how the account comes to be, how its owner logs in, and what  *)
(* staff change of it meanwhile.  Tokens are signed statements of what was *)
(* read when they were issued and are valid until they expire, so what     *)
(* matters is the moment of issue.  A call is a read, perhaps the trust it *)
(* puts in a device, and the issue or the write.                           *)
(***************************************************************************)
EXTENDS Naturals, FiniteSets

CONSTANTS
    Caller,         \* calls that may be in progress
    Role,           \* the roles staff may assign
    MaxSecrets,     \* bound: times the second factor is set up
    NoCall

VARIABLES
    kind,           \* the account type; "NONE" before the user exists
    userStatus,     \* users.status
    member,         \* member[o]: the user's role in organization o, or "NONE"
    mfa,            \* the row of user_mfa
    trusted,        \* there is a trusted device
    holdsRefresh,   \* a refresh token of the user is out
    granted,        \* ghost: the last token as <<login, roles>>
    asked,          \* ghost: the roles a finished setRoles was asked for
    proven,         \* ghost: secrets a code was computed with and checked
    request,        \* request[c]: the call in progress
    crossed         \* ghost: calls have overlapped or died

rowVars == <<kind, userStatus, member, mfa, trusted, holdsRefresh>>
accountVars == <<rowVars, granted, asked, proven, request, crossed>>

-----------------------------------------------------------------------------
Org == {"Kemraa", "Partner"}
Kind == {"TRAVELER", "DRIVER", "PARTNER", "STAFF"}
AllowedStatus == {"ACTIVE", "SUSPENDED", "DEACTIVATED"}
PartnerRole == {"PARTNER_ADMIN", "PARTNER_STAFF", "PARTNER_USER"}
LoginPath == {"OTP", "ACCESS", "REFRESH", "PASSWORD", "PARTNER", "MFA", "PORTAL"}

\* RolesGuard: a super administrator passes everywhere, and everybody passes
\* a handler that names no role.
Permitted(required, roles) ==
    required = {} \/ "SUPER_ADMIN" \in roles \/ required \cap roles # {}

\* PartnerGuard: a membership as partner of an organization that is one.
IsPartner == member["Partner"] \in PartnerRole

MemberRoles == {member[o] : o \in Org} \ {"NONE"}

\* getUserRoles gives a user without membership the role of a customer,
\* accessLogin that of an administrator.
RolesFor(path) ==
    IF MemberRoles # {} THEN MemberRoles
    ELSE IF path = "ACCESS" THEN {"ADMIN"} ELSE {"CUSTOMER"}

\* The password logins put users.role into the token and not the memberships.
PasswordRole == CASE kind = "DRIVER" -> {"DRIVER"} [] OTHER -> {"CUSTOMER"}

Init ==
    /\ kind = "NONE"
    /\ userStatus = "ACTIVE"
    /\ member = [o \in Org |-> "NONE"]
    /\ mfa = [secret |-> 0, enabled |-> FALSE]
    /\ trusted = FALSE
    /\ holdsRefresh = FALSE
    /\ granted = <<"NONE", {}>>
    /\ asked = {}
    /\ proven = {}
    /\ request = [c \in Caller |-> NoCall]
    /\ crossed = FALSE

-----------------------------------------------------------------------------
\* A call begins, or consists of this step: the ghost, and its record.
Cross == crossed' = (crossed \/ \E d \in Caller : request[d] # NoCall)
Begin(c, call) ==
    /\ request[c] = NoCall
    /\ request' = [request EXCEPT ![c] = call]
    /\ Cross

Continue(c, call) == request' = [request EXCEPT ![c] = call] /\ UNCHANGED crossed
Finish(c) == Continue(c, NoCall)
Doing(c, op) == request[c] # NoCall /\ request[c].op = op

\* A call dies: its process is killed, or one of its statements fails.
Abandon(c) ==
    /\ request[c] # NoCall
    /\ request' = [request EXCEPT ![c] = NoCall]
    /\ crossed' = TRUE
    /\ UNCHANGED <<rowVars, granted, asked, proven>>

-----------------------------------------------------------------------------
\* Registration finds nobody with this address, then inserts.  The address
\* is unique: of two registrations one fails.
Register(c, k) ==
    /\ kind = "NONE"
    /\ Begin(c, [op |-> "REGISTER", kind |-> k])
    /\ UNCHANGED <<rowVars, granted, asked, proven>>

Insert(c, k, accountType) ==
    /\ Doing(c, "REGISTER")
    /\ request[c].kind = k
    /\ kind = "NONE"
    /\ kind' = accountType
    /\ userStatus' = "ACTIVE"
    /\ UNCHANGED <<mfa, trusted, holdsRefresh, granted, asked, proven>>

InsertTraveler(c) == Insert(c, "TRAVELER", "TRAVELER") /\ UNCHANGED member /\ Finish(c)

InsertDriver(c) == Insert(c, "DRIVER", "DRIVER") /\ UNCHANGED member /\ Finish(c)

\* A partner gets the membership in the same transaction ...
InsertPartner(c) ==
    /\ Insert(c, "PARTNER", "PARTNER")
    /\ member' = [member EXCEPT !["Partner"] = "PARTNER_ADMIN"]
    /\ Finish(c)

\* ... staff, and the user of a partner's portal, in a statement of its own.
InsertStaff(c) ==
    /\ Insert(c, "STAFF", "STAFF")
    /\ UNCHANGED member
    /\ Continue(c, [op |-> "JOIN"])

InsertPortalUser(c) ==
    /\ Insert(c, "PORTAL", "STAFF")
    /\ UNCHANGED member
    /\ Continue(c, [op |-> "JOIN_PARTNER"])

JoinStaff(c) ==
    /\ Doing(c, "JOIN")
    /\ member["Kemraa"] = "NONE"
    /\ member' = [member EXCEPT !["Kemraa"] = "ADMIN"]
    /\ asked' = {"ADMIN"}
    /\ Finish(c)
    /\ UNCHANGED <<kind, userStatus, mfa, trusted, holdsRefresh, granted, proven>>

JoinPartner(c) ==
    /\ Doing(c, "JOIN_PARTNER")
    /\ member["Partner"] = "NONE"
    /\ member' = [member EXCEPT !["Partner"] = "PARTNER_USER"]
    /\ Finish(c)
    /\ UNCHANGED <<kind, userStatus, mfa, trusted, holdsRefresh, granted, asked, proven>>

-----------------------------------------------------------------------------
\* verifyOtp after the code was accepted: an unknown user is created, a
\* known one must be active.
LoginOtp(c) ==
    /\ kind # "NONE" => userStatus = "ACTIVE"
    /\ kind' = IF kind = "NONE" THEN "TRAVELER" ELSE kind
    /\ Begin(c, [op |-> "ISSUE", path |-> "OTP"])
    /\ UNCHANGED <<userStatus, member, mfa, trusted, holdsRefresh, granted, asked, proven>>

\* accessLogin with the user's code.  The code is never locked: nothing
\* counts attempts with wrong ones, because they find no user to count for.
LoginAccess(c) ==
    /\ kind = "STAFF"
    /\ userStatus = "ACTIVE"
    /\ Begin(c, [op |-> "TRUST", path |-> "ACCESS"])
    /\ UNCHANGED <<rowVars, granted, asked, proven>>

\* Mutant: a refresh token is enough, whatever became of its user.
BugLoginRefresh(c) ==
    /\ holdsRefresh
    /\ Begin(c, [op |-> "ISSUE", path |-> "REFRESH"])
    /\ UNCHANGED <<rowVars, granted, asked, proven>>

LoginRefresh(c) ==
    /\ holdsRefresh
    /\ userStatus = "ACTIVE"
    /\ Begin(c, [op |-> "ISSUE", path |-> "REFRESH"])
    /\ UNCHANGED <<rowVars, granted, asked, proven>>

\* The password login of travellers, which reads neither the status nor the
\* kind of account.  Any user may have a password, by the link for a
\* forgotten one.
LoginPassword(c) ==
    /\ kind # "NONE"
    /\ Begin(c, [op |-> "ISSUE", path |-> "PASSWORD"])
    /\ UNCHANGED <<rowVars, granted, asked, proven>>

\* That of drivers asks for their role, not for the status.
LoginDriver(c) ==
    /\ kind = "DRIVER"
    /\ Begin(c, [op |-> "ISSUE", path |-> "PASSWORD"])
    /\ UNCHANGED <<rowVars, granted, asked, proven>>

\* That of the portal takes a password or the access code, and asks for the
\* membership, not for the status or the second factor.
LoginPortal(c) ==
    /\ kind = "STAFF"
    /\ member["Partner"] = "PARTNER_USER"
    /\ Begin(c, [op |-> "ISSUE", path |-> "PORTAL"])
    /\ UNCHANGED <<rowVars, granted, asked, proven>>

\* A partner's: with the second factor enabled only from a trusted device;
\* from another one the answer is a token for mfaLogin and nothing else.
LoginPartner(c, known) ==
    /\ kind = "PARTNER"
    /\ mfa.enabled => trusted /\ known
    /\ Begin(c, [op |-> "ISSUE", path |-> "PARTNER"])
    /\ UNCHANGED <<rowVars, granted, asked, proven>>

\* mfaLogin: the code is of secret s, and becomes a proof of it.
LoginMfa(c, s, remember) ==
    /\ kind = "PARTNER"
    /\ mfa.enabled
    /\ s = mfa.secret
    /\ Begin(c, [op |-> IF remember THEN "TRUST" ELSE "ISSUE", path |-> "MFA"])
    /\ UNCHANGED <<rowVars, granted, asked, proven>>

\* The upsert of the device, by accessLogin and by mfaLogin.
TrustDevice(c) ==
    /\ Doing(c, "TRUST")
    /\ trusted' = TRUE
    /\ Continue(c, [op |-> "ISSUE", path |-> request[c].path])
    /\ UNCHANGED <<kind, userStatus, member, mfa, holdsRefresh, granted, asked, proven>>

\* The token: roles are read now, the status was read before.
Issue(c) ==
    /\ Doing(c, "ISSUE")
    /\ LET path == request[c].path IN
         /\ granted' = <<path, CASE path \in {"PASSWORD", "PARTNER", "MFA"} -> PasswordRole
                                [] path = "PORTAL" -> {"PARTNER_USER"}
                                [] OTHER -> RolesFor(path)>>
         /\ holdsRefresh' = (holdsRefresh \/ path \in {"OTP", "ACCESS", "REFRESH"})
    /\ Finish(c)
    /\ UNCHANGED <<kind, userStatus, member, mfa, trusted, asked, proven>>

-----------------------------------------------------------------------------
\* Staff: updateStatus writes what it is asked for, toggleLock whatever there
\* was, deleteStaff suspends and then forgets the devices, as regenerateCode does.
SetStatus(to) ==
    /\ kind # "NONE"
    /\ to \in AllowedStatus
    /\ userStatus' = to
    /\ Cross
    /\ UNCHANGED <<kind, member, mfa, trusted, holdsRefresh, granted, asked, proven, request>>

ToggleLock(suspended) == SetStatus(IF suspended THEN "SUSPENDED" ELSE "ACTIVE")

DeleteStaff(c) ==
    /\ kind = "STAFF"
    /\ userStatus' = "SUSPENDED"
    /\ Begin(c, [op |-> "FORGET"])
    /\ UNCHANGED <<kind, member, mfa, trusted, holdsRefresh, granted, asked, proven>>

RegenerateCode(c) ==
    /\ kind # "NONE"
    /\ Begin(c, [op |-> "FORGET"])
    /\ UNCHANGED <<rowVars, granted, asked, proven>>

ForgetDevices(c) ==
    /\ Doing(c, "FORGET")
    /\ trusted' = FALSE
    /\ Finish(c)
    /\ UNCHANGED <<kind, userStatus, member, mfa, holdsRefresh, granted, asked, proven>>

RevokeDevice ==
    /\ IsPartner
    /\ trusted
    /\ trusted' = FALSE
    /\ Cross
    /\ UNCHANGED <<kind, userStatus, member, mfa, holdsRefresh, granted, asked, proven, request>>

\* setRoles removes the memberships in every organization ...
SetRoles(c, actor, roles) ==
    /\ kind # "NONE"
    /\ Permitted({"ADMIN", "SUPER_ADMIN"}, {actor})
    /\ member' = [o \in Org |-> "NONE"]
    /\ Begin(c, [op |-> "ASSIGN", all |-> roles, left |-> roles])
    /\ UNCHANGED <<kind, userStatus, mfa, trusted, holdsRefresh, granted, asked, proven>>

\* ... and inserts one row per role.  The key of a row is the organization
\* and the user, so the second insert fails and leaves the first (Abandon).
AssignRole(c, r) ==
    /\ Doing(c, "ASSIGN")
    /\ r \in request[c].left
    /\ member["Kemraa"] = "NONE"
    /\ member' = [member EXCEPT !["Kemraa"] = r]
    /\ Continue(c, [request[c] EXCEPT !.left = @ \ {r}])
    /\ UNCHANGED <<kind, userStatus, mfa, trusted, holdsRefresh, granted, asked, proven>>

RolesAssigned(c) ==
    /\ Doing(c, "ASSIGN")
    /\ request[c].left = {}
    /\ asked' = request[c].all
    /\ Finish(c)
    /\ UNCHANGED <<rowVars, granted, proven>>

\* updateStaff writes the role of the membership, if there is one.
UpdateStaffRole(r) ==
    /\ kind = "STAFF"
    /\ member["Kemraa"] # "NONE"
    /\ member' = [member EXCEPT !["Kemraa"] = r]
    /\ asked' = {r}
    /\ Cross
    /\ UNCHANGED <<kind, userStatus, mfa, trusted, holdsRefresh, granted, proven, request>>

-----------------------------------------------------------------------------
\* Mutant: the second factor stays enabled with a secret nobody has proved.
BugMfaSetup ==
    /\ IsPartner
    /\ mfa.secret < MaxSecrets
    /\ mfa' = [mfa EXCEPT !.secret = @ + 1]
    /\ Cross
    /\ UNCHANGED <<kind, userStatus, member, trusted, holdsRefresh, granted, asked, proven, request>>

\* mfaSetup: a new secret, which disables the second factor.
MfaSetup ==
    /\ IsPartner
    /\ mfa.secret < MaxSecrets
    /\ mfa' = [secret |-> mfa.secret + 1, enabled |-> FALSE]
    /\ Cross
    /\ UNCHANGED <<kind, userStatus, member, trusted, holdsRefresh, granted, asked, proven, request>>

\* mfaVerify and mfaDisable check a code of secret s against the row they
\* read, and write the flag later, whatever the secret is then.
CheckMfa(c, s, enable) ==
    /\ IsPartner
    /\ mfa.secret # 0
    /\ s = mfa.secret
    /\ ~enable => mfa.enabled
    /\ proven' = proven \cup {s}
    /\ Begin(c, [op |-> "FLAG", enable |-> enable])
    /\ UNCHANGED <<rowVars, granted, asked>>

FlagMfa(c) ==
    /\ Doing(c, "FLAG")
    /\ mfa' = [mfa EXCEPT !.enabled = request[c].enable]
    /\ Finish(c)
    /\ UNCHANGED <<kind, userStatus, member, trusted, holdsRefresh, granted, asked, proven>>

Next ==
    \/ \E c \in Caller, k \in Kind \cup {"PORTAL"} : Register(c, k)
    \/ \E c \in Caller : InsertTraveler(c) \/ InsertDriver(c) \/ InsertPartner(c)
    \/ \E c \in Caller : InsertStaff(c) \/ InsertPortalUser(c)
    \/ \E c \in Caller : JoinStaff(c)
    \/ \E c \in Caller : JoinPartner(c)
    \/ \E c \in Caller : LoginOtp(c)
    \/ \E c \in Caller : LoginAccess(c)
    \/ \E c \in Caller : LoginRefresh(c)
    \/ \E c \in Caller : LoginPassword(c)
    \/ \E c \in Caller : LoginDriver(c)
    \/ \E c \in Caller : LoginPortal(c)
    \/ \E c \in Caller, known \in BOOLEAN : LoginPartner(c, known)
    \/ \E c \in Caller, s \in 1..MaxSecrets, remember \in BOOLEAN : LoginMfa(c, s, remember)
    \/ \E c \in Caller : TrustDevice(c)
    \/ \E c \in Caller : Issue(c)
    \/ \E to \in AllowedStatus : SetStatus(to)
    \/ \E suspended \in BOOLEAN : ToggleLock(suspended)
    \/ \E c \in Caller : DeleteStaff(c)
    \/ \E c \in Caller : RegenerateCode(c)
    \/ \E c \in Caller : ForgetDevices(c)
    \/ RevokeDevice
    \/ \E c \in Caller, actor \in {"ADMIN", "SUPPORT"}, roles \in SUBSET Role : SetRoles(c, actor, roles)
    \/ \E c \in Caller, r \in Role : AssignRole(c, r)
    \/ \E c \in Caller : RolesAssigned(c)
    \/ \E r \in Role : UpdateStaffRole(r)
    \/ MfaSetup
    \/ \E c \in Caller, s \in 1..MaxSecrets, enable \in BOOLEAN : CheckMfa(c, s, enable)
    \/ \E c \in Caller : FlagMfa(c)
    \/ \E c \in Caller : Abandon(c)

Spec == Init /\ [][Next]_accountVars

-----------------------------------------------------------------------------
TypeOK ==
    /\ kind \in Kind \cup {"NONE"}
    /\ userStatus \in AllowedStatus
    /\ member \in [Org -> Role \cup {"NONE", "ADMIN"} \cup PartnerRole]
    /\ mfa \in [secret : 0..MaxSecrets, enabled : BOOLEAN]
    /\ {trusted, holdsRefresh, crossed} \subseteq BOOLEAN
    /\ granted[1] \in LoginPath \cup {"NONE"}
    /\ asked \subseteq Role \cup {"ADMIN"}
    /\ proven \subseteq 1..MaxSecrets
    /\ DOMAIN request = Caller

\* Until calls overlap or die, a second factor that is enabled was proved
\* with the secret that is stored, and a user's role in the company is what
\* the last call that assigned roles and was answered had been asked for.
AsProvenAndAsked ==
    ~crossed =>
        /\ mfa.enabled => mfa.secret \in proven
        /\ (\A c \in Caller : request[c] = NoCall) => {member["Kemraa"]} \ {"NONE"} = asked

\* Until calls overlap or die, the logins that look at the status issue no
\* token to a user who is not active, and the partners' login issues none with
\* an enabled second factor and without a trusted device.  Of the travellers'
\* login, which a partner may use, it says nothing.
IssuedToActive ==
    [][~crossed /\ granted' # granted =>
         /\ granted'[1] \in {"OTP", "ACCESS", "REFRESH"} => userStatus = "ACTIVE"
         /\ granted'[1] = "PARTNER" => (mfa.enabled => trusted)]_accountVars
=============================================================================
