--------------------------- MODULE WorkspacesProofs ---------------------------
(***************************************************************************)
(* The safety of Workspaces for any users, invites and number of requests  *)
(* in flight.  A request writes what it decided on a snapshot that may be  *)
(* out of date, so the invariant (IInv) says of every request in flight    *)
(* what of its reading cannot become false any more (Fits): rows are never *)
(* removed, memberships of the tenant neither, and the authority behind a  *)
(* role was checked when it was read.                                      *)
(***************************************************************************)
EXTENDS Workspaces, FiniteSetTheorems, TLAPS

Rows     == [role : Roles, status : {"active", "removed"}]
SentRows == [email : Users, role : Roles \ {"founder"}, by : Managers,
             status : {"pending", "accepted", "revoked", "expired"}]

Request == [op : {"none", "member", "transfer", "archive", "invite", "accept", "claim",
                  "expired", "revoked"},
            auth : Managers \union {"none"}, who : Users \union {Nobody},
            new : {NoRow} \union Rows, copy : {NoRow} \union Rows,
            from : Users \union {Nobody}, invite : Invites \union {NoInvite},
            old : {NoInviteRow} \union SentRows]

Belongs(u) == u \in tenant /\ u \in accounts
Upper      == {"platform", "founder"}

(* What a request has read of members and accounts and still holds. *)
FitsMembers(r) ==
    /\ r.op \in {"member", "transfer", "accept", "claim"} =>
          /\ r.who \in Users /\ r.new \in Rows /\ r.auth \in Managers
          /\ r.copy # NoRow => member[r.who] # NoRow
          /\ r.new.role = "admin" /\ r.copy.role # "admin" => r.auth \in Upper
    /\ r.op \in {"member", "transfer"} => Belongs(r.who)
    /\ r.op = "transfer" => /\ r.from \in Users /\ member[r.from] # NoRow
                            /\ member[r.who] # NoRow /\ r.auth \in Upper
    /\ r.op \in {"accept", "claim"} => r.new.status = "active"

(* What it has read of invites. *)
FitsInvites(r) ==
    /\ r.op = "invite" => /\ r.who \in Users /\ r.auth \in Managers
                          /\ r.new.role \in Roles \ {"founder"}
                          /\ r.new.role = "admin" => r.auth \in Upper
    /\ r.op \in {"expired", "revoked"} => r.invite \in Invites
    /\ r.invite # NoInvite => /\ r.invite \in Invites /\ r.old.status = "pending"
                              /\ invite[r.invite] # NoInviteRow

Fits(r) == FitsMembers(r) /\ FitsInvites(r)

RequestsFit == /\ request \in [Slots -> Request]
               /\ \A s \in Slots : Fits(request[s])

(* Whoever has a row, active or removed, belongs to the tenant. *)
RowsBelong == /\ Belongs(Founder)
              /\ \A u \in Users : member[u] # NoRow => Belongs(u)

(* Only a founder or the platform invites admins. *)
InvitesRanked == \A i \in Invites : invite[i].role = "admin" => invite[i].by \in Upper

(* TypeOK in three parts. *)
MemberTypes == /\ member \in [Users -> {NoRow} \union Rows] /\ by \in [Users -> Managers]
               /\ overwritten \in BOOLEAN
InviteTypes == /\ invite \in [Invites -> {NoInviteRow} \union SentRows]
               /\ contested \subseteq Invites /\ granted \in [Invites -> Nat]
OtherTypes  == /\ default \in BOOLEAN /\ archived \in BOOLEAN
               /\ tenant \subseteq Users /\ accounts \subseteq Users
               /\ due \subseteq Invites /\ requests \in 0..MaxRequests

MembersInv == /\ MemberTypes /\ NoEscalation
              /\ IsFiniteSet(ActiveFounders(member)) /\ FounderStands
InvitesInv == InviteTypes /\ InviteSettles /\ InvitesRanked

IInv == MembersInv /\ InvitesInv /\ OtherTypes /\ RequestsFit /\ RowsBelong

-----------------------------------------------------------------------------
(* Facts about rows and requests. *)

(* A role and a status make a row, which is not the missing one. *)
LEMMA RowsAreRows ==
    /\ NoRow \notin Rows
    /\ \A role \in Roles : Member(role) \in Rows /\ Removed(role) \in Rows
    /\ \A row \in Rows : row.role \in Roles /\ row.status \in {"active", "removed"}
                            /\ row.role # "none" /\ row.status # "none"
    /\ NoRow.role = "none" /\ NoRow.status = "none"
  BY DEF Rows, NoRow, Member, Removed, Roles

(* An invite that was sent has an address, a role below the founder's and   *)
(* an author, and is not the missing row.                                   *)
LEMMA SentRowsAreRows ==
    /\ NoInviteRow.status = "none" /\ NoInviteRow.role = "none"
    /\ \A row \in SentRows : /\ row.email \in Users /\ row.role \in Roles \ {"founder"}
                             /\ row.by \in Managers /\ row.role # "none"
                             /\ row.status \in {"pending", "accepted", "revoked", "expired"}
  BY DEF SentRows, NoInviteRow, Roles

(* The parts make up the type invariant. *)
LEMMA TypeParts == TypeOK <=> MemberTypes /\ InviteTypes /\ OtherTypes
  BY DEF TypeOK, MemberTypes, InviteTypes, OtherTypes, Rows, SentRows

(* A free slot holds nothing that could fail to fit. *)
LEMMA NoneFits == None \in Request /\ Fits(None)
  <1>1. None \in Request
    BY DEF None, Request
  <1>2. FitsMembers(None)
    BY DEF None, FitsMembers
  <1>3. FitsInvites(None)
    BY DEF None, FitsInvites
  <1> QED BY <1>1, <1>2, <1>3 DEF Fits

(* What a request has read stays true while rows stay rows and nobody       *)
(* leaves the tenant.                                                       *)
LEMMA FitsKept ==
    ASSUME NEW r \in Request, Fits(r),
           \A u \in Users : member[u] # NoRow => member'[u] # NoRow,
           \A i \in Invites : invite[i] # NoInviteRow => invite'[i] # NoInviteRow,
           tenant \subseteq tenant', accounts \subseteq accounts'
    PROVE  Fits(r)'
  <1>1. FitsMembers(r)'
    BY DEF Fits, FitsMembers, Belongs
  <1>2. FitsInvites(r)'
    BY DEF Fits, FitsInvites
  <1> QED BY <1>1, <1>2 DEF Fits

(* A step that frees a slot, or fills it with a request that fits, keeps    *)
(* the requests fitting.                                                    *)
LEMMA RequestsKept ==
    ASSUME RequestsFit, NEW s \in Slots, NEW r \in Request, Fits(r)',
           request' = [request EXCEPT ![s] = r],
           \A u \in Users : member[u] # NoRow => member'[u] # NoRow,
           \A i \in Invites : invite[i] # NoInviteRow => invite'[i] # NoInviteRow,
           tenant \subseteq tenant', accounts \subseteq accounts'
    PROVE  RequestsFit'
  <1>1. request' \in [Slots -> Request]
    BY DEF RequestsFit
  <1>2. ASSUME NEW t \in Slots PROVE Fits(request[t])'
    <2>1. CASE t = s
      <3>1. request'[t] = r
        BY <2>1 DEF RequestsFit
      <3> QED BY <3>1 DEF Fits, FitsMembers, FitsInvites, Belongs
    <2>2. CASE t # s
      <3>1. request'[t] = request[t] /\ request[t] \in Request /\ Fits(request[t])
        BY <2>2 DEF RequestsFit
      <3> DEFINE q == request[t]
      <3>2. Fits(q)
        BY <3>1
      <3> QED BY <3>1, <3>2, FitsKept DEF Fits, FitsMembers, FitsInvites, Belongs
    <2> QED BY <2>1, <2>2
  <1> QED BY <1>1, <1>2 DEF RequestsFit

(* A slot is freed. *)
LEMMA DoneKeepsRequests ==
    ASSUME RequestsFit, NEW s \in Slots, Done(s),
           \A u \in Users : member[u] # NoRow => member'[u] # NoRow,
           \A i \in Invites : invite[i] # NoInviteRow => invite'[i] # NoInviteRow,
           tenant \subseteq tenant', accounts \subseteq accounts'
    PROVE  RequestsFit'
  <1>1. Fits(None)'
    BY DEF None, Fits, FitsMembers, FitsInvites
  <1> QED BY <1>1, NoneFits, RequestsKept DEF Done

-----------------------------------------------------------------------------
(* Reading: every read puts a request that fits into a free slot. *)

(* A role that somebody may assign is below the founder's; admins are made  *)
(* by founders and the platform only.                                       *)
LEMMA AssignableRoles ==
    ASSUME NEW auth \in Managers, NEW role \in Roles, Assignable(auth, role)
    PROVE  role \in Roles \ {"founder"} /\ (role = "admin" => auth \in Upper)
  BY DEF Assignable, Upper, Managers

(* Reads(s): a request that fits begins in s. *)
Reads(s) == \E r \in Request : Fits(r) /\ Begin(s, r)

LEMMA MemberReads ==
    ASSUME TypeOK, RowsBelong, NEW s \in Slots, NEW auth, NEW u \in Users,
           NEW role \in Roles
    PROVE  /\ AddMember(s, auth, u, role) => Reads(s)
           /\ \A status \in {"active", "removed"} :
                 UpdateMember(s, auth, u, role, status) => Reads(s)
  <1> USE RowsAreRows
  <1>1. member[u] \in {NoRow} \union Rows /\ Member(role) \in Rows
    BY DEF TypeOK, Rows
  <1>2. ASSUME AddMember(s, auth, u, role) PROVE Reads(s)
    <2> DEFINE r == [None EXCEPT !.op = "member", !.auth = auth, !.who = u,
                                 !.new = Member(role), !.copy = member[u]]
    <2>1. auth \in Managers /\ Assignable(auth, role) /\ Belongs(u) /\ Begin(s, r)
      BY <1>2 DEF AddMember, Belongs
    <2>2. r \in Request
      BY <1>1, <2>1 DEF None, Request
    <2>3. Fits(r)
      BY <1>1, <2>1, AssignableRoles DEF None, Fits, FitsMembers, FitsInvites, Member
    <2> QED BY <2>1, <2>2, <2>3 DEF Reads
  <1>3. ASSUME NEW status \in {"active", "removed"}, UpdateMember(s, auth, u, role, status)
        PROVE  Reads(s)
    <2> DEFINE r == [None EXCEPT !.op = "member", !.auth = auth, !.who = u, !.copy = member[u],
                                 !.new = [role |-> role, status |-> status]]
    <2>1. /\ auth \in Managers /\ Assignable(auth, role) /\ Belongs(u) /\ Begin(s, r)
          /\ [role |-> role, status |-> status] \in Rows
      BY <1>3 DEF UpdateMember, Manageable, RowsBelong, Rows
    <2>2. r \in Request
      BY <1>1, <2>1 DEF None, Request
    <2>3. Fits(r)
      BY <1>1, <2>1, AssignableRoles DEF None, Fits, FitsMembers, FitsInvites
    <2> QED BY <2>1, <2>2, <2>3 DEF Reads
  <1> QED BY <1>2, <1>3

LEMMA TransferReads ==
    ASSUME TypeOK, RowsBelong, NEW s \in Slots, NEW auth, NEW u \in Users,
           TransferFounder(s, auth, u)
    PROVE  Reads(s)
  <1> USE RowsAreRows
  <1>1. PICK f \in ActiveFounders(member) :
           Begin(s, [None EXCEPT !.op = "transfer", !.auth = auth, !.who = u, !.from = f,
                                 !.copy = member[u], !.new = Member("founder")])
    BY DEF TransferFounder
  <1> DEFINE r == [None EXCEPT !.op = "transfer", !.auth = auth, !.who = u, !.from = f,
                               !.copy = member[u], !.new = Member("founder")]
  <1>2. /\ f \in Users /\ member[f] # NoRow
        /\ member[u] \in Rows /\ member[u] # NoRow /\ Belongs(u)
        /\ auth \in Upper /\ auth \in Managers
        /\ Member("founder") \in Rows /\ Member("founder").role = "founder"
    BY DEF TransferFounder, ActiveFounders, Member, TypeOK, Rows, RowsBelong, Upper,
           Managers, NoRow, Roles
  <1>3. r \in Request
    BY <1>2 DEF None, Request
  <1>4. Fits(r)
    BY <1>2 DEF None, Fits, FitsMembers, FitsInvites
  <1> QED BY <1>1, <1>3, <1>4 DEF Reads

LEMMA ArchiveReads ==
    ASSUME NEW s \in Slots, NEW auth, Archive(s, auth)
    PROVE  Reads(s)
  <1> DEFINE r == [None EXCEPT !.op = "archive", !.auth = auth]
  <1>1. r \in Request
    BY DEF None, Request, Archive, Managers
  <1>2. Fits(r)
    BY DEF None, Fits, FitsMembers, FitsInvites
  <1> QED BY <1>1, <1>2 DEF Reads, Archive

LEMMA CreateInviteReads ==
    ASSUME TypeOK, NEW s \in Slots, NEW auth, NEW e \in Users, NEW role \in Roles,
           CreateInvite(s, auth, e, role)
    PROVE  Reads(s)
  <1> USE RowsAreRows
  <1> DEFINE old == IF Pending(e) = {} THEN NoInvite ELSE CHOOSE i \in Pending(e) : TRUE
             row == IF old = NoInvite THEN NoInviteRow ELSE invite[old]
             r   == [None EXCEPT !.op = "invite", !.auth = auth, !.who = e,
                                 !.new = Member(role), !.invite = old, !.old = row]
  <1>1. old = NoInvite \/ old \in Pending(e)
    OBVIOUS
  <1>2. /\ old \in Invites \union {NoInvite} /\ row \in {NoInviteRow} \union SentRows
        /\ old # NoInvite => /\ old \in Invites /\ row.status = "pending"
                             /\ invite[old] # NoInviteRow
    BY <1>1, InvitesAssumption, SentRowsAreRows DEF Pending, TypeOK, SentRows
  <1>3. /\ auth \in Managers /\ Assignable(auth, role) /\ Begin(s, r)
        /\ Member(role) \in Rows /\ Member(role).role = role
    BY DEF CreateInvite, Member
  <1> HIDE DEF old, row
  <1>4. r \in Request
    BY <1>2, <1>3 DEF None, Request
  <1>5. Fits(r)
    BY <1>2, <1>3, AssignableRoles DEF None, Fits, FitsMembers, FitsInvites
  <1> QED BY <1>3, <1>4, <1>5 DEF Reads

LEMMA OpenInviteReads ==
    ASSUME TypeOK, RowsBelong, InvitesRanked, NEW s \in Slots, NEW i \in Invites,
           NEW op \in {"accept", "claim"}, OpenInvite(s, i, op)
    PROVE  Reads(s)
  <1> USE RowsAreRows, SentRowsAreRows
  <1> DEFINE row == invite[i]
             r   == [None EXCEPT !.op = op, !.auth = row.by, !.who = row.email,
                                 !.new = Member(row.role), !.copy = member[row.email],
                                 !.invite = i, !.old = row]
  <1>1. /\ row.status = "pending" /\ row \in SentRows /\ Begin(s, r)
        /\ invite[i] # NoInviteRow
    BY DEF OpenInvite, EffectiveStatus, TypeOK, SentRows
  <1>2. /\ row.email \in Users /\ row.role \in Roles /\ row.by \in Managers
        /\ member[row.email] \in {NoRow} \union Rows
        /\ row.role = "admin" => row.by \in Upper
        /\ Member(row.role) \in Rows /\ Member(row.role).role = row.role
        /\ Member(row.role).status = "active"
    BY <1>1 DEF TypeOK, Rows, InvitesRanked, Member
  <1> HIDE DEF row
  <1>3. r \in Request
    BY <1>1, <1>2 DEF None, Request
  <1>4. Fits(r)
    BY <1>1, <1>2 DEF None, Fits, FitsMembers, FitsInvites
  <1> QED BY <1>1, <1>3, <1>4 DEF Reads

LEMMA EndInviteReads ==
    ASSUME TypeOK, NEW s \in Slots, NEW i \in Invites
    PROVE  /\ ExpireInvite(s, i) => Reads(s)
           /\ \A auth : RevokeInvite(s, auth, i) => Reads(s)
  <1> USE SentRowsAreRows
  <1>1. ASSUME ExpireInvite(s, i) PROVE Reads(s)
    <2> DEFINE r == [None EXCEPT !.op = "expired", !.invite = i, !.old = invite[i]]
    <2>1. invite[i].status = "pending" /\ invite[i] \in {NoInviteRow} \union SentRows
      BY <1>1 DEF ExpireInvite, TypeOK, SentRows
    <2>2. r \in Request
      BY <2>1 DEF None, Request
    <2>3. Fits(r)
      BY <2>1 DEF None, Fits, FitsMembers, FitsInvites
    <2> QED BY <1>1, <2>2, <2>3 DEF Reads, ExpireInvite
  <1>2. ASSUME NEW auth, RevokeInvite(s, auth, i) PROVE Reads(s)
    <2> DEFINE r == [None EXCEPT !.op = "revoked", !.auth = auth, !.invite = i,
                                 !.old = invite[i]]
    <2>1. /\ invite[i].status = "pending" /\ invite[i] \in {NoInviteRow} \union SentRows
          /\ auth \in Managers
      BY <1>2 DEF RevokeInvite, EffectiveStatus, TypeOK, SentRows
    <2>2. r \in Request
      BY <2>1 DEF None, Request
    <2>3. Fits(r)
      BY <2>1 DEF None, Fits, FitsMembers, FitsInvites
    <2> QED BY <1>2, <2>2, <2>3 DEF Reads, RevokeInvite
  <1> QED BY <1>1, <1>2

LEMMA PlatformReads ==
    ASSUME TypeOK, RowsBelong, NEW s \in Slots
    PROVE  /\ Bootstrap(s) => Reads(s)
           /\ \A u \in Users : CreatePlatformUser(s, u) => Reads(s)
  <1> USE RowsAreRows
  <1>1. ASSUME Bootstrap(s) PROVE Reads(s)
    <2> DEFINE r == [None EXCEPT !.op = "member", !.auth = "platform", !.who = Founder,
                                 !.new = Member(BootstrapRole), !.copy = member[Founder]]
    <2>1. /\ BootstrapRole \in Roles /\ Founder \in Users /\ Belongs(Founder)
          /\ member[Founder] \in {NoRow} \union Rows
      BY UsersAssumption DEF BootstrapRole, Roles, RowsBelong, TypeOK, Rows
    <2>2. Member(BootstrapRole) \in Rows
      BY <2>1
    <2>3. r \in Request
      BY <2>1, <2>2 DEF None, Request, Managers
    <2>4. Fits(r)
      BY <2>1, <2>2 DEF None, Fits, FitsMembers, FitsInvites, Upper, Managers
    <2> QED BY <1>1, <2>3, <2>4 DEF Reads, Bootstrap
  <1>2. ASSUME NEW u \in Users, CreatePlatformUser(s, u) PROVE Reads(s)
    <2> DEFINE r == [None EXCEPT !.op = "claim", !.auth = "platform", !.who = u,
                                 !.new = Member("member"), !.copy = member[u]]
    <2>1. member[u] \in {NoRow} \union Rows /\ Member("member") \in Rows
          /\ Member("member").status = "active"
      BY DEF TypeOK, Rows, Roles, Member
    <2>2. r \in Request
      BY <2>1 DEF None, Request, Managers
    <2>3. Fits(r)
      BY <2>1 DEF None, Fits, FitsMembers, FitsInvites, Upper, Managers
    <2> QED BY <1>2, <2>2, <2>3 DEF Reads, CreatePlatformUser
  <1> QED BY <1>1, <1>2

LEMMA ReadReads ==
    ASSUME TypeOK, RowsBelong, InvitesRanked, NEW s \in Slots, Read(s)
    PROVE  Reads(s)
  <1>1. ASSUME NEW auth, Manage(s, auth) PROVE Reads(s)
    <2>1. ASSUME NEW u \in Users, RemoveMember(s, auth, u) PROVE Reads(s)
      <3>1. /\ member[u].status = "active" /\ member[u] \in {NoRow} \union Rows
            /\ UpdateMember(s, auth, u, member[u].role, "removed")
        BY <2>1 DEF RemoveMember, TypeOK, Rows
      <3>2. member[u].role \in Roles
        BY <3>1, RowsAreRows
      <3> QED BY <3>1, <3>2, MemberReads
    <2> QED BY <1>1, <2>1, MemberReads, TransferReads, ArchiveReads, CreateInviteReads,
               EndInviteReads DEF Manage
  <1>2. ASSUME NEW i \in Invites, AcceptInvite(s, i) \/ ClaimInvite(s, i) PROVE Reads(s)
    BY <1>2, OpenInviteReads DEF AcceptInvite, ClaimInvite
  <1> QED BY <1>1, <1>2, EndInviteReads, PlatformReads DEF Read

-----------------------------------------------------------------------------
(* Writing: what a commit makes of the memberships. *)

(* A set of founders that is finite and has one member at most has, with a   *)
(* member at all, exactly one.                                              *)
LEMMA OneOfAtMostOne ==
    ASSUME NEW S, IsFiniteSet(S), Cardinality(S) <= 1, NEW x \in S
    PROVE  Cardinality(S) = 1
  BY FS_CardinalityType, FS_EmptySet

(* The founders of rows that differ in two users only are as finite. *)
LEMMA FoundersFinite ==
    ASSUME IsFiniteSet(ActiveFounders(member)), NEW u, NEW v, NEW m,
           \A x \in Users \ {u, v} : m[x] = member[x]
    PROVE  IsFiniteSet(ActiveFounders(m))
  <1> DEFINE S == (ActiveFounders(member) \cup {u}) \cup {v}
  <1>1. IsFiniteSet(S)
    BY FS_AddElement
  <1>2. ActiveFounders(m) \in SUBSET S
    BY DEF ActiveFounders
  <1> QED BY <1>1, <1>2, FS_Subset

LEMMA UpsertRow ==
    ASSUME MemberTypes, NEW r \in Request, FitsMembers(r),
           r.op \in {"member", "accept", "claim"}, Upsert(r)
    PROVE  /\ member' = [member EXCEPT ![r.who] = Written(r.who, r.copy, r.new)]
           /\ r.who \in Users /\ member'[r.who] \in Rows
           /\ \A u \in Users : u # r.who => member'[u] = member[u]
           /\ \A u \in Users : member[u] # NoRow => member'[u] # NoRow
  <1> USE RowsAreRows
  <1>1. member' = [member EXCEPT ![r.who] = Written(r.who, r.copy, r.new)]
    BY DEF Upsert
  <1>2. /\ r.who \in Users /\ r.new \in Rows /\ r.copy \in {NoRow} \union Rows
        /\ member[r.who] \in {NoRow} \union Rows
        /\ r.copy = NoRow <=> member[r.who] = NoRow
    BY DEF FitsMembers, Upsert, Request, MemberTypes
  <1>3. Written(r.who, r.copy, r.new) \in Rows
    <2>1. CASE r.copy = NoRow
      BY <1>2, <2>1 DEF Written, Rows
    <2>2. CASE r.copy # NoRow
      <3>1. member[r.who] \in Rows
        BY <1>2, <2>2
      <3> QED BY <1>2, <3>1 DEF Written, Rows
    <2> QED BY <2>1, <2>2
  <1> QED BY <1>1, <1>2, <1>3 DEF MemberTypes

LEMMA UpsertTypes ==
    ASSUME MemberTypes, NEW r \in Request, FitsMembers(r),
           r.op \in {"member", "accept", "claim"}, Upsert(r)
    PROVE  MemberTypes'
  <1>1. member' \in [Users -> {NoRow} \union Rows]
    BY UpsertRow DEF MemberTypes
  <1>2. by' \in [Users -> Managers]
    BY DEF MemberTypes, Upsert, FitsMembers
  <1>3. overwritten' \in BOOLEAN
    BY DEF MemberTypes, Upsert
  <1> QED BY <1>1, <1>2, <1>3 DEF MemberTypes

(* The role that a request hands out is one that its authority may. *)
LEMMA UpsertRanked ==
    ASSUME MemberTypes, NoEscalation, NEW r \in Request, FitsMembers(r),
           r.op \in {"member", "accept", "claim"}, Upsert(r)
    PROVE  NoEscalation'
  <1> SUFFICES ASSUME NEW u \in Users, member'[u].role = "admin" PROVE by'[u] \in Upper
    BY DEF NoEscalation, Upper
  <1>1. CASE u # r.who
    <2>1. member'[u] = member[u] /\ by'[u] = by[u]
      BY <1>1, UpsertRow DEF Upsert, MemberTypes
    <2> QED BY <2>1 DEF NoEscalation, Upper
  <1>2. CASE u = r.who
    <2>1. member'[u] = Written(r.who, r.copy, r.new)
      BY <1>2, UpsertRow DEF MemberTypes
    <2>2. CASE r.new.role = r.copy.role
      <3>1. member[u].role = "admin" /\ by' = by
        BY <1>2, <2>1, <2>2 DEF Written, Upsert
      <3> QED BY <3>1 DEF NoEscalation, Upper
    <2>3. CASE r.new.role # r.copy.role
      <3>1. r.new.role = "admin" /\ by'[u] = r.auth
        BY <1>2, <2>1, <2>3 DEF Written, Upsert, MemberTypes
      <3> QED BY <2>3, <3>1 DEF FitsMembers
    <2> QED BY <2>2, <2>3
  <1> QED BY <1>1, <1>2

(* One active founder stays one active founder: the index refuses a second, *)
(* and the first is only lost to an overwriting.                            *)
LEMMA UpsertFounder ==
    ASSUME MemberTypes, IsFiniteSet(ActiveFounders(member)), FounderStands,
           NEW r \in Request, FitsMembers(r),
           r.op \in {"member", "accept", "claim"}, Upsert(r)
    PROVE  IsFiniteSet(ActiveFounders(member))' /\ FounderStands'
  <1>1. IsFiniteSet(ActiveFounders(member'))
    BY UpsertRow, FoundersFinite
  <1>2. Cardinality(ActiveFounders(member')) <= 1
    BY DEF Upsert, Indexed
  <1>3. ASSUME ~overwritten' PROVE Cardinality(ActiveFounders(member')) = 1
    <2>1. ~overwritten /\ (member[r.who] = Member("founder")
                             => Written(r.who, r.copy, r.new) = Member("founder"))
      BY <1>3 DEF Upsert
    <2>2. Cardinality(ActiveFounders(member)) = 1
      BY <2>1 DEF FounderStands
    <2>3. PICK f : ActiveFounders(member) = {f}
      BY <2>2, FS_Singleton
    <2>4. f \in Users /\ member[f] = Member("founder")
      BY <2>3 DEF ActiveFounders
    <2>5. member'[f] = Member("founder")
      BY <2>1, <2>4, UpsertRow DEF MemberTypes
    <2>6. f \in ActiveFounders(member')
      BY <2>4, <2>5 DEF ActiveFounders
    <2> QED BY <1>1, <1>2, <2>6, OneOfAtMostOne
  <1> QED BY <1>1, <1>2, <1>3 DEF FounderStands, ActiveFounders

(* A transfer writes two roles; the new founder is one afterwards or the    *)
(* transfer is rolled back.                                                 *)
LEMMA TransferWrites ==
    ASSUME MemberTypes, IsFiniteSet(ActiveFounders(member)), FounderStands, NoEscalation,
           NEW s \in Slots, request[s] \in Request, FitsMembers(request[s]), CommitTransfer(s)
    PROVE  /\ MemberTypes' /\ NoEscalation'
           /\ IsFiniteSet(ActiveFounders(member))' /\ FounderStands'
           /\ \A u \in Users : member'[u] # NoRow <=> member[u] # NoRow
  <1> USE RowsAreRows
  <1> DEFINE r == request[s]
             m == [member EXCEPT ![r.from].role = "admin", ![r.who].role = "founder"]
  <1>1. /\ r.from \in Users /\ r.who \in Users /\ r.auth \in Upper
        /\ member[r.from] \in Rows /\ member[r.who] \in Rows
    BY DEF CommitTransfer, FitsMembers, MemberTypes
  <1>2. /\ member' = m /\ Indexed(m) /\ r.who \in ActiveFounders(m)
        /\ by' = [by EXCEPT ![r.from] = r.auth, ![r.who] = r.auth]
        /\ overwritten' = overwritten
    BY DEF CommitTransfer, FoundersAfter
  <1>3. m \in [Users -> {NoRow} \union Rows]
    BY <1>1 DEF MemberTypes, Rows, Roles
  <1>4. \A u \in Users : u \notin {r.from, r.who} => m[u] = member[u]
    BY <1>1 DEF MemberTypes
  <1>5. \A u \in {r.from, r.who} : m[u] \in Rows
    BY <1>1 DEF MemberTypes, Rows, Roles
  <1>6. MemberTypes'
    BY <1>1, <1>2, <1>3 DEF MemberTypes, Upper, Managers
  <1>7. NoEscalation'
    BY <1>1, <1>2, <1>4 DEF NoEscalation, MemberTypes, Upper
  <1>8. IsFiniteSet(ActiveFounders(m))
    <2>1. \A u \in Users \ {r.from, r.who} : m[u] = member[u]
      BY <1>4
    <2> HIDE DEF m
    <2> QED BY <2>1, FoundersFinite
  <1>9. Cardinality(ActiveFounders(m)) = 1
    <2> HIDE DEF m
    <2> QED BY <1>2, <1>8, OneOfAtMostOne DEF Indexed
  <1>10. \A u \in Users : member'[u] # NoRow <=> member[u] # NoRow
    BY <1>1, <1>2, <1>4, <1>5
  <1>11. IsFiniteSet(ActiveFounders(member))' /\ FounderStands'
    <2> HIDE DEF m
    <2>1. ActiveFounders(member)' = ActiveFounders(m)
      BY <1>2 DEF ActiveFounders
    <2>2. Cardinality(ActiveFounders(member)') = 1
      BY <1>9, <2>1
    <2>3. FounderStands'
      BY <2>2 DEF FounderStands
    <2> QED BY <1>8, <2>1, <2>3
  <1> QED BY <1>6, <1>7, <1>10, <1>11

-----------------------------------------------------------------------------
(* Writing: what a commit makes of the invites. *)

(* An invite that ends without having been read as it is now is contested;  *)
(* otherwise it was pending, and nobody had been made a member by it.       *)
LEMMA SetInviteKeeps ==
    ASSUME InviteTypes, InviteSettles, InvitesRanked,
           NEW r \in Request, FitsInvites(r), r.invite # NoInvite,
           NEW status \in {"accepted", "revoked", "expired"}, SetInvite(r, status),
           granted' = IF status = "accepted" THEN [granted EXCEPT ![r.invite] = @ + 1]
                      ELSE granted
    PROVE  /\ InviteTypes' /\ InviteSettles' /\ InvitesRanked'
           /\ \A i \in Invites : invite[i] # NoInviteRow => invite'[i] # NoInviteRow
  <1> USE SentRowsAreRows
  <1>1. /\ r.invite \in Invites /\ r.old.status = "pending"
        /\ invite[r.invite] \in SentRows
    BY DEF FitsInvites, InviteTypes
  <1>2. invite' = [invite EXCEPT ![r.invite].status = status]
    BY DEF SetInvite
  <1>3. /\ invite'[r.invite] \in SentRows /\ invite'[r.invite].status = status
        /\ \A i \in Invites : invite'[i].role = invite[i].role /\ invite'[i].by = invite[i].by
    BY <1>1, <1>2 DEF InviteTypes, SentRows
  <1>4. InviteTypes'
    BY <1>1, <1>2, <1>3 DEF InviteTypes, SetInvite
  <1>5. InviteSettles'
    <2> SUFFICES ASSUME NEW i \in Invites \ contested'
                 PROVE  granted'[i] = IF invite'[i].status = "accepted" THEN 1 ELSE 0
      BY DEF InviteSettles
    <2>1. i \notin contested
      BY <1>1 DEF SetInvite
    <2>2. granted[i] = IF invite[i].status = "accepted" THEN 1 ELSE 0
      BY <2>1 DEF InviteSettles
    <2>3. CASE i # r.invite
      BY <1>2, <2>2, <2>3 DEF InviteTypes
    <2>4. CASE i = r.invite
      <3>1. invite[i].status = "pending"
        BY <1>1, <2>4 DEF SetInvite
      <3>2. granted[i] = 0 /\ invite'[i].status = status
        BY <1>3, <2>2, <2>4, <3>1
      <3> QED BY <2>4, <3>2 DEF InviteTypes
    <2> QED BY <2>3, <2>4
  <1>6. InvitesRanked'
    BY <1>3 DEF InvitesRanked
  <1>7. \A i \in Invites : invite[i] # NoInviteRow => invite'[i] # NoInviteRow
    BY <1>2, <1>3 DEF InviteTypes
  <1> QED BY <1>4, <1>5, <1>6, <1>7

(* An invite is only sent on the word of somebody who may give its role;    *)
(* the one it takes the place of ends like any other.                       *)
LEMMA CommitInviteKeeps ==
    ASSUME InvitesInv, NEW s \in Slots, request[s] \in Request, FitsInvites(request[s]),
           NEW i \in Invites, CommitInvite(s, i)
    PROVE  /\ InvitesInv'
           /\ \A j \in Invites : invite[j] # NoInviteRow => invite'[j] # NoInviteRow
  <1> USE SentRowsAreRows
  <1> DEFINE r    == request[s]
             rest == IF r.invite = NoInvite THEN invite
                     ELSE [invite EXCEPT ![r.invite].status = "expired"]
             row  == [email |-> r.who, role |-> r.new.role, status |-> "pending",
                      by |-> r.auth]
  <1>1. /\ r.who \in Users /\ r.auth \in Managers /\ r.new.role \in Roles \ {"founder"}
        /\ r.new.role = "admin" => r.auth \in Upper
        /\ r.invite # NoInvite => /\ r.invite \in Invites /\ r.old.status = "pending"
                                  /\ invite[r.invite] \in SentRows
                                  /\ invite[r.invite] # NoInviteRow
        /\ invite[i] = NoInviteRow
    BY DEF CommitInvite, FitsInvites, InvitesInv, InviteTypes
  <1>2. row \in SentRows
    BY <1>1 DEF SentRows
  <1>3. /\ invite' = [rest EXCEPT ![i] = row] /\ granted' = granted
        /\ contested' = IF r.invite # NoInvite /\ invite[r.invite] # r.old
                        THEN contested \union {r.invite} ELSE contested
    BY DEF CommitInvite
  <1>4. rest \in [Invites -> {NoInviteRow} \union SentRows]
    BY <1>1 DEF InvitesInv, InviteTypes, SentRows
  <1>5. \A j \in Invites : /\ j # r.invite => rest[j] = invite[j]
                           /\ rest[j].role = invite[j].role /\ rest[j].by = invite[j].by
                           /\ j = r.invite /\ j # NoInvite => rest[j].status = "expired"
    BY <1>1 DEF InvitesInv, InviteTypes, SentRows
  <1> HIDE DEF rest, row
  <1>6. \A j \in Invites : j # i => invite'[j] = rest[j]
    BY <1>3, <1>4
  <1>7. invite'[i] = row
    BY <1>3, <1>4
  <1>8. InviteTypes'
    BY <1>1, <1>2, <1>3, <1>4 DEF InvitesInv, InviteTypes
  <1>9. InvitesRanked'
    BY <1>1, <1>5, <1>6, <1>7 DEF InvitesRanked, InvitesInv, row
  <1>10. InviteSettles'
    <2> SUFFICES ASSUME NEW j \in Invites \ contested'
                 PROVE  granted'[j] = IF invite'[j].status = "accepted" THEN 1 ELSE 0
      BY DEF InviteSettles
    <2>1. granted[j] = IF invite[j].status = "accepted" THEN 1 ELSE 0
      BY <1>3 DEF InvitesInv, InviteSettles
    <2>2. CASE j = i
      BY <1>1, <1>3, <1>7, <2>1, <2>2 DEF row
    <2>3. CASE j # i /\ j # r.invite
      BY <1>3, <1>5, <1>6, <2>1, <2>3
    <2>4. CASE j # i /\ j = r.invite
      <3>1. r.invite # NoInvite
        BY <2>4, InvitesAssumption
      <3>2. invite[j].status = "pending"
        BY <1>1, <1>3, <2>4, <3>1
      <3> QED BY <1>3, <1>5, <1>6, <2>1, <2>4, <3>1, <3>2
    <2> QED BY <2>2, <2>3, <2>4
  <1>11. \A j \in Invites : invite[j] # NoInviteRow => invite'[j] # NoInviteRow
    <2> SUFFICES ASSUME NEW j \in Invites, invite[j] # NoInviteRow
                 PROVE  invite'[j] # NoInviteRow
      OBVIOUS
    <2>1. CASE j # r.invite
      BY <1>1, <1>5, <1>6, <2>1
    <2>2. CASE j = r.invite
      BY <1>1, <1>5, <1>6, <2>2, InvitesAssumption
    <2> QED BY <2>1, <2>2
  <1> QED BY <1>8, <1>9, <1>10, <1>11 DEF InvitesInv

-----------------------------------------------------------------------------
(* The invariant, step by step. *)

LEMMA MembersUnchanged ==
    MembersInv /\ UNCHANGED <<member, by, overwritten>> => MembersInv'
  BY DEF MembersInv, MemberTypes, NoEscalation, FounderStands, ActiveFounders

LEMMA InvitesUnchanged ==
    InvitesInv /\ UNCHANGED <<invite, contested, granted>> => InvitesInv'
  BY DEF InvitesInv, InviteTypes, InviteSettles, InvitesRanked

(* Nobody gets a row without belonging to the tenant. *)
LEMMA RowsBelongKept ==
    ASSUME RowsBelong, tenant \subseteq tenant', accounts \subseteq accounts',
           NEW w \in Users, Belongs(w)',
           \A u \in Users : u # w => member'[u] = member[u]
    PROVE  RowsBelong'
  <1>1. Belongs(Founder)'
    BY DEF RowsBelong, Belongs
  <1>2. ASSUME NEW u \in Users, member'[u] # NoRow PROVE Belongs(u)'
    BY <1>2 DEF RowsBelong, Belongs
  <1> QED BY <1>1, <1>2 DEF RowsBelong

LEMMA InitInv == Init => IInv
  <1> SUFFICES ASSUME Init PROVE IInv
    OBVIOUS
  <1>1. MemberTypes
    BY RowsAreRows DEF Init, MemberTypes, Roles, Managers
  <1>2. ActiveFounders(member) = {Founder}
    BY UsersAssumption DEF Init, ActiveFounders, Member, Removed, NoRow
  <1>3. IsFiniteSet(ActiveFounders(member)) /\ Cardinality(ActiveFounders(member)) = 1
    BY <1>2, FS_Singleton
  <1>4. FounderStands
    BY <1>3 DEF FounderStands
  <1>5. NoEscalation
    BY DEF Init, NoEscalation
  <1>6. InvitesInv
    BY DEF Init, InvitesInv, InviteTypes, InviteSettles, InvitesRanked, NoInviteRow
  <1>7. OtherTypes
    <2>1. requests \in 0..MaxRequests
      BY RequestsAssumption DEF Init
    <2>2. accounts \subseteq Users /\ tenant \subseteq Users
      BY DEF Init
    <2>3. default \in BOOLEAN /\ archived \in BOOLEAN /\ due \subseteq Invites
      BY DEF Init
    <2> QED BY <2>1, <2>2, <2>3 DEF OtherTypes
  <1>8. RequestsFit
    BY NoneFits DEF Init, RequestsFit
  <1>9. RowsBelong
    BY UsersAssumption DEF Init, RowsBelong, Belongs
  <1> QED BY <1>1, <1>3, <1>4, <1>5, <1>6, <1>7, <1>8, <1>9 DEF IInv, MembersInv

LEMMA ReadInv ==
    ASSUME IInv, NEW s \in Slots, Read(s)
    PROVE  IInv'
  <1>1. TypeOK /\ RowsBelong /\ InvitesRanked /\ RequestsFit
    BY TypeParts DEF IInv, MembersInv, InvitesInv
  <1>2. PICK r \in Request : Fits(r) /\ Begin(s, r)
    BY <1>1, ReadReads DEF Reads
  <1>3. /\ UNCHANGED <<tables, due, historyVars>>
        /\ request' = [request EXCEPT ![s] = r]
        /\ requests' \in 0..MaxRequests
    BY <1>2, RequestsAssumption DEF Begin, IInv, OtherTypes
  <1>4. Fits(r)'
    BY <1>2, <1>3 DEF Fits, FitsMembers, FitsInvites, Belongs, tables
  <1>5. RequestsFit'
    BY <1>1, <1>3, <1>4, RequestsKept DEF tables
  <1>6. MembersInv' /\ InvitesInv'
    BY <1>3, MembersUnchanged, InvitesUnchanged DEF IInv, tables, historyVars
  <1>7. OtherTypes' /\ RowsBelong'
    BY <1>1, <1>3 DEF IInv, OtherTypes, RowsBelong, Belongs, tables
  <1> QED BY <1>5, <1>6, <1>7 DEF IInv

(* Writing a membership, alone or with account, tenant and invite. *)
LEMMA UpsertInv ==
    ASSUME MembersInv, NEW r \in Request, FitsMembers(r),
           r.op \in {"member", "accept", "claim"}, Upsert(r)
    PROVE  /\ MembersInv' /\ r.who \in Users
           /\ \A u \in Users : member[u] # NoRow => member'[u] # NoRow
           /\ \A u \in Users : u # r.who => member'[u] = member[u]
  BY UpsertRow, UpsertTypes, UpsertRanked, UpsertFounder DEF MembersInv

LEMMA CommitMemberInv ==
    ASSUME IInv, NEW s \in Slots, CommitMember(s)
    PROVE  IInv'
  <1> DEFINE r == request[s]
  <1>1. /\ r \in Request /\ Fits(r) /\ r.op = "member" /\ Upsert(r) /\ Done(s)
        /\ UNCHANGED <<default, archived, tenant, accounts, invite, due, granted, contested,
                       requests>>
    BY DEF CommitMember, IInv, RequestsFit
  <1> HIDE DEF r
  <1>2. /\ MembersInv' /\ r.who \in Users /\ Belongs(r.who)
        /\ \A u \in Users : member[u] # NoRow => member'[u] # NoRow
        /\ \A u \in Users : u # r.who => member'[u] = member[u]
    BY <1>1, UpsertInv DEF IInv, Fits, FitsMembers
  <1>3. RequestsFit'
    BY <1>1, <1>2, DoneKeepsRequests DEF IInv
  <1>4. RowsBelong'
    BY <1>1, <1>2, RowsBelongKept DEF IInv, Belongs
  <1>5. InvitesInv' /\ OtherTypes'
    BY <1>1, InvitesUnchanged DEF IInv, OtherTypes
  <1> QED BY <1>2, <1>3, <1>4, <1>5 DEF IInv

LEMMA CommitTransferInv ==
    ASSUME IInv, NEW s \in Slots, CommitTransfer(s)
    PROVE  IInv'
  <1>1. /\ request[s] \in Request /\ FitsMembers(request[s]) /\ Done(s)
        /\ UNCHANGED <<default, archived, tenant, accounts, invite, due, granted, contested,
                       overwritten, requests>>
    BY DEF CommitTransfer, IInv, RequestsFit, Fits
  <1>2. MembersInv' /\ \A u \in Users : member'[u] # NoRow <=> member[u] # NoRow
    BY <1>1, TransferWrites DEF IInv, MembersInv
  <1>3. RequestsFit'
    BY <1>1, <1>2, DoneKeepsRequests DEF IInv
  <1>4. RowsBelong'
    BY <1>1, <1>2 DEF IInv, RowsBelong, Belongs
  <1>5. InvitesInv' /\ OtherTypes'
    BY <1>1, InvitesUnchanged DEF IInv, OtherTypes
  <1> QED BY <1>2, <1>3, <1>4, <1>5 DEF IInv

LEMMA CommitJoinInv ==
    ASSUME IInv, NEW s \in Slots, CommitJoin(s)
    PROVE  IInv'
  <1> DEFINE r == request[s]
  <1>1. /\ r \in Request /\ Fits(r) /\ r.op \in {"accept", "claim"} /\ Upsert(r) /\ Done(s)
        /\ accounts' = accounts \union {r.who} /\ tenant' = tenant \union {r.who}
        /\ UNCHANGED <<default, archived, due, requests>>
        /\ r.invite = NoInvite => UNCHANGED <<invite, contested, granted>>
        /\ r.invite # NoInvite => /\ SetInvite(r, "accepted")
                                  /\ granted' = [granted EXCEPT ![r.invite] = @ + 1]
    BY DEF CommitJoin, IInv, RequestsFit
  <1> HIDE DEF r
  <1>2. /\ MembersInv' /\ r.who \in Users
        /\ \A u \in Users : member[u] # NoRow => member'[u] # NoRow
        /\ \A u \in Users : u # r.who => member'[u] = member[u]
    BY <1>1, UpsertInv DEF IInv, Fits
  <1>3. InvitesInv' /\ \A i \in Invites : invite[i] # NoInviteRow => invite'[i] # NoInviteRow
    <2>1. CASE r.invite = NoInvite
      BY <1>1, <2>1, InvitesUnchanged DEF IInv
    <2>2. CASE r.invite # NoInvite
      BY <1>1, <2>2, SetInviteKeeps DEF IInv, InvitesInv, Fits
    <2> QED BY <2>1, <2>2
  <1>4. RequestsFit'
    BY <1>1, <1>2, <1>3, DoneKeepsRequests DEF IInv
  <1>5. RowsBelong'
    BY <1>1, <1>2, RowsBelongKept DEF IInv, Belongs
  <1>6. OtherTypes'
    BY <1>1, <1>2 DEF IInv, OtherTypes
  <1> QED BY <1>2, <1>3, <1>4, <1>5, <1>6 DEF IInv

(* Archiving, ending an invite and sending one leave the members alone. *)
LEMMA MembersAlone ==
    ASSUME IInv, InvitesInv', OtherTypes', NEW s \in Slots, Done(s),
           UNCHANGED <<member, tenant, accounts, by, overwritten>>,
           \A i \in Invites : invite[i] # NoInviteRow => invite'[i] # NoInviteRow
    PROVE  IInv'
  <1>1. MembersInv' /\ RowsBelong'
    BY MembersUnchanged DEF IInv, RowsBelong, Belongs
  <1>2. RequestsFit'
    BY DoneKeepsRequests DEF IInv
  <1> QED BY <1>1, <1>2 DEF IInv

LEMMA CommitEndInv ==
    ASSUME IInv, NEW s \in Slots, CommitEnd(s)
    PROVE  IInv'
  <1> DEFINE r == request[s]
  <1>1. /\ r \in Request /\ Fits(r) /\ r.op \in {"expired", "revoked"} /\ Done(s)
        /\ SetInvite(r, r.op)
        /\ UNCHANGED <<default, archived, member, tenant, accounts, due, by, granted,
                       overwritten, requests>>
    BY DEF CommitEnd, IInv, RequestsFit
  <1> HIDE DEF r
  <1>2. r.invite # NoInvite
    BY <1>1, InvitesAssumption DEF Fits, FitsInvites
  <1>3. InvitesInv' /\ \A i \in Invites : invite[i] # NoInviteRow => invite'[i] # NoInviteRow
    BY <1>1, <1>2, SetInviteKeeps DEF IInv, InvitesInv, Fits
  <1>4. OtherTypes'
    BY <1>1 DEF IInv, OtherTypes
  <1> QED BY <1>1, <1>3, <1>4, MembersAlone

LEMMA CommitInv ==
    ASSUME IInv, NEW s \in Slots, Commit(s)
    PROVE  IInv'
  <1>1. ASSUME CommitArchive(s) PROVE IInv'
    <2>1. InvitesInv' /\ OtherTypes' /\ Done(s)
      BY <1>1, InvitesUnchanged DEF CommitArchive, IInv, OtherTypes, historyVars
    <2> QED BY <1>1, <2>1, MembersAlone DEF CommitArchive, historyVars
  <1>2. ASSUME NEW i \in Invites, CommitInvite(s, i) PROVE IInv'
    <2>1. request[s] \in Request /\ FitsInvites(request[s])
      BY DEF IInv, RequestsFit, Fits
    <2>2. /\ InvitesInv'
          /\ \A j \in Invites : invite[j] # NoInviteRow => invite'[j] # NoInviteRow
      BY <1>2, <2>1, CommitInviteKeeps DEF IInv
    <2>3. OtherTypes' /\ Done(s) /\ UNCHANGED <<member, tenant, accounts, by, overwritten>>
      BY <1>2 DEF CommitInvite, IInv, OtherTypes
    <2> QED BY <2>2, <2>3, MembersAlone
  <1> QED BY <1>1, <1>2, CommitMemberInv, CommitTransferInv, CommitJoinInv, CommitEndInv
      DEF Commit

LEMMA StepInv == IInv /\ [Next]_vars => IInv'
  <1> SUFFICES ASSUME IInv, [Next]_vars PROVE IInv'
    OBVIOUS
  <1>1. ASSUME NEW s \in Free, Read(s) PROVE IInv'
    BY <1>1, ReadInv DEF Free
  <1>2. ASSUME NEW s \in Slots, Commit(s) PROVE IInv'
    BY <1>2, CommitInv
  <1>3. ASSUME NEW s \in Slots, Refuse(s) PROVE IInv'
    <2>1. InvitesInv' /\ OtherTypes'
      BY <1>3, InvitesUnchanged DEF Refuse, IInv, OtherTypes, tables, historyVars
    <2> QED BY <1>3, <2>1, MembersAlone DEF Refuse, tables, historyVars
  <1>4. ASSUME NEW i \in Invites, FallsDue(i) PROVE IInv'
    <2>1. /\ MembersInv' /\ InvitesInv' /\ OtherTypes'
      BY <1>4, MembersUnchanged, InvitesUnchanged
      DEF FallsDue, IInv, OtherTypes, tables, historyVars
    <2>2. RequestsFit' /\ RowsBelong'
      BY <1>4 DEF FallsDue, IInv, RequestsFit, RowsBelong, Fits, FitsMembers, FitsInvites,
                  Belongs, tables
    <2> QED BY <2>1, <2>2 DEF IInv
  <1>5. ASSUME UNCHANGED vars PROVE IInv'
    <2>1. /\ MembersInv' /\ InvitesInv' /\ OtherTypes'
      BY <1>5, MembersUnchanged, InvitesUnchanged
      DEF vars, IInv, OtherTypes, tables, historyVars
    <2>2. RequestsFit' /\ RowsBelong'
      BY <1>5 DEF vars, IInv, RequestsFit, RowsBelong, Fits, FitsMembers, FitsInvites,
                  Belongs, tables
    <2> QED BY <2>1, <2>2 DEF IInv
  <1> QED BY <1>1, <1>2, <1>3, <1>4, <1>5 DEF Next

LEMMA Invariance == Spec => []IInv
  <1> QED BY InitInv, StepInv, PTL DEF Spec

-----------------------------------------------------------------------------
(* Every row is of its type in every reachable state. *)
THEOREM WorkspaceTypes == Spec => []TypeOK
  <1>1. IInv => TypeOK
    BY TypeParts DEF IInv, MembersInv, InvitesInv
  <1> QED BY <1>1, Invariance, PTL

(* A workspace never has two active founders, and has none only after a     *)
(* request that had read a plain member wrote over the founder it had       *)
(* become (transfer_workspace_founder, update_workspace_member, bootstrap). *)
THEOREM FounderNeverLostOrDoubled == Spec => []FounderStands
  <1>1. IInv => FounderStands
    BY DEF IInv, MembersInv
  <1> QED BY <1>1, Invariance, PTL

(* Behind every admin there is a founder or the platform, whatever requests *)
(* cross and however old the invite is (_assert_assignable_role).           *)
THEOREM NobodyEscalates == Spec => []NoEscalation
  <1>1. IInv => NoEscalation
    BY DEF IInv, MembersInv
  <1> QED BY <1>1, Invariance, PTL

(* An invite that no two requests wrote has made a member once if accepted, *)
(* and never otherwise (workspace_invite_service.py).                       *)
THEOREM InvitesSettle == Spec => []InviteSettles
  <1>1. IInv => InviteSettles
    BY DEF IInv, InvitesInv
  <1> QED BY <1>1, Invariance, PTL

(* Whoever is active in the workspace has an account and belongs to the     *)
(* tenant: each way to become a member checks it or makes it so.            *)
THEOREM MembersBelong == Spec => []MembersInTenant
  <1>1. IInv => MembersInTenant
    BY RowsAreRows DEF IInv, RowsBelong, MembersInTenant, Belongs
  <1> QED BY <1>1, Invariance, PTL

-----------------------------------------------------------------------------
(* What holds of AccessPolicy for every role and every stored override, also *)
(* one that outlived the role it was validated for.                          *)

(* What a role has by itself is what its row of the matrix says. *)
LEMMA RoleGrants ==
    ASSUME NEW role, NEW c \in Capabilities
    PROVE  RoleCapabilities(role)[c] <=> c \in Granted(role)
  BY DEF RoleCapabilities

(* Only a founder's row of the matrix has the founder-only capabilities. *)
LEMMA FounderRowOnly ==
    ASSUME NEW role, role # "founder", NEW c \in FounderOnly
    PROVE  c \notin Granted(role)
  <1>1. CASE role = "admin"
    BY <1>1 DEF Granted
  <1>2. CASE role = "member"
    BY <1>2 DEF Granted, MemberMay, GuestMay, FounderOnly
  <1>3. CASE role = "guest"
    BY <1>3 DEF Granted, GuestMay, FounderOnly
  <1>4. CASE role \notin {"admin", "member", "guest"}
    BY <1>4 DEF Granted
  <1> QED
    BY <1>1, <1>2, <1>3, <1>4

(* No override lends a founder's powers to another role: not one stored     *)
(* while its owner was the founder and kept through a transfer              *)
(* (resolve_workspace_capabilities, workspace_access_service.py:171).       *)
THEOREM NoFounderPowers ==
    ASSUME NEW role, role # "founder", NEW o, NEW c \in FounderOnly,
           c \in DOMAIN o => o[c] \in BOOLEAN
    PROVE  ~May(role, o, c)
  <1>1. c \in Capabilities
    BY DEF FounderOnly, Capabilities
  <1>2. ~RoleCapabilities(role)[c]
    BY <1>1, FounderRowOnly, RoleGrants
  <1>3. CASE c \in DOMAIN o /\ o[c]
    <2>1. Ignored(role, o, c)
      BY <1>2, <1>3 DEF Ignored
    <2> QED
      BY <1>1, <1>2, <2>1 DEF May, ResolveCapabilities
  <1>4. CASE ~(c \in DOMAIN o /\ o[c])
    BY <1>1, <1>2, <1>4 DEF May, ResolveCapabilities
  <1> QED
    BY <1>3, <1>4

(* The two sides agree: what validation lets through for a role is not      *)
(* skipped when the capabilities of that role are resolved (:128, :171).    *)
THEOREM ValidOverrideApplies ==
    ASSUME NEW role, NEW o, ValidOverride(o, role),
           NEW c \in DOMAIN o, c \in Capabilities, o[c] \in BOOLEAN
    PROVE  May(role, o, c) = o[c]
  <1>1. CASE role = "founder"
    <2>1. RoleCapabilities(role)[c]
      BY <1>1 DEF RoleCapabilities, Granted
    <2> QED
      BY <2>1 DEF May, ResolveCapabilities, Ignored
  <1>2. CASE role # "founder"
    <2>1. ~Ignored(role, o, c)
      BY <1>2 DEF ValidOverride, Ignored
    <2> QED
      BY <2>1 DEF May, ResolveCapabilities
  <1> QED
    BY <1>1, <1>2

(* Who may edit a resource may also read it, whatever the capability that   *)
(* is asked for (can_read_*, can_edit_*, :214-:247).                        *)
THEOREM EditImpliesRead ==
    ASSUME NEW p, NEW r, NEW manage, CanEdit(p, r, manage)
    PROVE  CanRead(p, r)
  BY DEF CanEdit, CanRead

=============================================================================
