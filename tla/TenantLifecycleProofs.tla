----------------------- MODULE TenantLifecycleProofs -----------------------
(***************************************************************************)
(* For any accounts and slots: no tenant inherits or loses data, an active *)
(* account has its tenant, and a disabled one has no session.              *)
(***************************************************************************)
EXTENDS MCTenantLifecycle, Sequences, TLAPS

(* Exactly the registered accounts have a slot, each one of its own. *)
SlotsAreOwn ==
    /\ \A a \in Accounts : slotOf[a] \in Slots <=> status[a] \in Existing
    /\ \A a, b \in Registered : slotOf[a] = slotOf[b] => a = b

(* A free slot holds no data. *)
FreeIsEmpty == \A s \in Slots \ Taken : data[s] = {} /\ orphan[s] = {}

(* Data lies in an image that exists, and only such an image is in place. *)
DataIsInImage ==
    \A s \in Slots : /\ s \notin image => data[s] = {}
                     /\ mount[s] = "image" => s \in image

(* A purge works on a disabled account's slot, and leaves no data in it. *)
PurgeIsOwners ==
    purging.id # None =>
        /\ status[purging.id] = "disabled"
        /\ slotOf[purging.id] = purging.slot
        /\ purging.step \in {"remove", "commit"} => data[purging.slot] = {}
        /\ purging.step = "commit" => orphan[purging.slot] = {}

(* A row, however old, names the slot of its account if that still exists. *)
RowsNameSlots ==
    \A r \in Rows : r \in todo \/ r = row =>
        status[r.id] \in {"purged"} \union Existing /\ (status[r.id] \in Existing => slotOf[r.id] = r.slot)

(* While the account at hand is pending, what was prepared for it stays. *)
PreparedStays ==
    step # "idle" /\ status[row.id] = "pending" =>
        /\ step # "image" => row.slot \in image
        /\ step \in {"start", "activate"} => row.slot \in secrets

IInv == /\ TypeOK /\ SlotsAreOwn /\ FreeIsEmpty /\ DataIsInImage /\ PurgeIsOwners
        /\ RowsNameSlots /\ PreparedStays
        /\ NothingInherited /\ ActiveHasTenant /\ SessionsAreActive

USE TenantAssumption

LEMMA InitIInv == Init => IInv
  BY DEF Init, IInv, TypeOK, SlotsAreOwn, FreeIsEmpty, DataIsInImage, PurgeIsOwners,
         RowsNameSlots, PreparedStays, NothingInherited, ActiveHasTenant, SessionsAreActive,
         Registered, Taken, Existing, Rows, NoRow, NoPurge

LEMMA CreateInvitationStep ==
    ASSUME IInv, NEW a \in Accounts, CreateInvitation(a)
    PROVE  IInv'
<1>1. TypeOK'
  BY DEF CreateInvitation, disks, units, reconciler, purger, IInv, TypeOK
<1>2. SlotsAreOwn'
  BY <1>1 DEF CreateInvitation, units, IInv, SlotsAreOwn, Existing, Registered
<1>3. FreeIsEmpty'
  BY <1>1 DEF CreateInvitation, disks, IInv, FreeIsEmpty, Existing, Registered, Taken
<1>4. PurgeIsOwners'
  BY <1>1 DEF CreateInvitation, disks, units, purger, IInv, PurgeIsOwners
<1>5. RowsNameSlots'
  BY <1>1 DEF CreateInvitation, units, reconciler, IInv, RowsNameSlots, Existing
<1>6. PreparedStays'
  BY <1>1 DEF CreateInvitation, disks, units, reconciler, IInv, PreparedStays
<1>7. NothingInherited'
  BY <1>1 DEF CreateInvitation, disks, IInv, NothingInherited, Existing, Registered
<1>8. ActiveHasTenant'
  BY <1>1 DEF CreateInvitation, disks, units, reconciler, IInv, ActiveHasTenant
<1>9. SessionsAreActive'
  BY <1>1 DEF CreateInvitation, units, reconciler, purger, IInv, SessionsAreActive
<1>10. DataIsInImage'
  BY <1>1 DEF CreateInvitation, disks, units, reconciler, IInv, DataIsInImage
<1> QED BY <1>1, <1>2, <1>3, <1>4, <1>5, <1>6, <1>7, <1>8, <1>9, <1>10 DEF IInv

LEMMA InvitationExpiresStep ==
    ASSUME IInv, NEW a \in Accounts, InvitationExpires(a)
    PROVE  IInv'
<1>1. TypeOK'
  BY DEF InvitationExpires, disks, units, reconciler, purger, IInv, TypeOK
<1>2. SlotsAreOwn'
  BY <1>1 DEF InvitationExpires, units, IInv, SlotsAreOwn, Existing, Registered
<1>3. FreeIsEmpty'
  BY <1>1 DEF InvitationExpires, disks, IInv, FreeIsEmpty, Existing, Registered, Taken
<1>4. PurgeIsOwners'
  BY <1>1 DEF InvitationExpires, disks, units, purger, IInv, PurgeIsOwners
<1>5. RowsNameSlots'
  BY <1>1 DEF InvitationExpires, units, reconciler, IInv, RowsNameSlots, Existing
<1>6. PreparedStays'
  BY <1>1 DEF InvitationExpires, disks, units, reconciler, IInv, PreparedStays
<1>7. NothingInherited'
  BY <1>1 DEF InvitationExpires, disks, IInv, NothingInherited, Existing, Registered
<1>8. ActiveHasTenant'
  BY <1>1 DEF InvitationExpires, disks, units, reconciler, IInv, ActiveHasTenant
<1>9. SessionsAreActive'
  BY <1>1 DEF InvitationExpires, units, reconciler, purger, IInv, SessionsAreActive
<1>10. DataIsInImage'
  BY <1>1 DEF InvitationExpires, disks, units, reconciler, IInv, DataIsInImage
<1> QED BY <1>1, <1>2, <1>3, <1>4, <1>5, <1>6, <1>7, <1>8, <1>9, <1>10 DEF IInv

LEMMA RedeemInvitationStep ==
    ASSUME IInv, NEW a \in Accounts, NEW s \in Slots, RedeemInvitation(a, s)
    PROVE  IInv'
<1>1. TypeOK'
  BY DEF RedeemInvitation, disks, units, reconciler, purger, IInv, TypeOK, Existing
<1>2. SlotsAreOwn'
  BY <1>1 DEF RedeemInvitation, IInv, SlotsAreOwn, Registered, TypeOK, Taken
<1>3. FreeIsEmpty'
  BY <1>1 DEF RedeemInvitation, disks, IInv, FreeIsEmpty, Existing, Registered, Taken
<1>4. PurgeIsOwners'
  BY <1>1 DEF RedeemInvitation, disks, units, purger, IInv, PurgeIsOwners
<1>5. RowsNameSlots'
  BY <1>1 DEF RedeemInvitation, units, reconciler, IInv, RowsNameSlots, Existing
<1>6. PreparedStays'
  BY <1>1 DEF RedeemInvitation, disks, reconciler, IInv, PreparedStays, TypeOK,
              RowsNameSlots, Existing
<1>7. NothingInherited'
  BY <1>1 DEF RedeemInvitation, disks, IInv, NothingInherited, Registered, TypeOK,
              FreeIsEmpty
<1>8. ActiveHasTenant'
  BY <1>1 DEF RedeemInvitation, disks, units, reconciler, IInv, ActiveHasTenant
<1>9. SessionsAreActive'
  BY <1>1 DEF RedeemInvitation, units, reconciler, purger, IInv, SessionsAreActive
<1>10. DataIsInImage'
  BY <1>1 DEF RedeemInvitation, disks, units, reconciler, IInv, DataIsInImage
<1> QED BY <1>1, <1>2, <1>3, <1>4, <1>5, <1>6, <1>7, <1>8, <1>9, <1>10 DEF IInv

LEMMA VerifyPasswordStep ==
    ASSUME IInv, NEW a \in Accounts, VerifyPassword(a)
    PROVE  IInv'
<1>1. TypeOK'
  BY DEF VerifyPassword, disks, units, reconciler, purger, IInv, TypeOK
<1>2. SlotsAreOwn' /\ FreeIsEmpty' /\ DataIsInImage' /\ PurgeIsOwners' /\ RowsNameSlots' /\ PreparedStays' /\ NothingInherited' /\ ActiveHasTenant' /\ SessionsAreActive'
  BY <1>1 DEF VerifyPassword, disks, units, reconciler, purger, IInv, SlotsAreOwn,
              FreeIsEmpty, DataIsInImage, PurgeIsOwners, RowsNameSlots, PreparedStays,
              NothingInherited, ActiveHasTenant, SessionsAreActive, Existing, Registered,
              Taken, TypeOK
<1> QED BY <1>1, <1>2 DEF IInv

LEMMA CreateSessionStep ==
    ASSUME IInv, NEW a \in Accounts, CreateSession(a)
    PROVE  IInv'
<1>1. TypeOK'
  BY DEF CreateSession, disks, units, reconciler, purger, IInv, TypeOK
<1>2. SessionsAreActive'
  BY <1>1 DEF CreateSession, Available, units, reconciler, IInv, SessionsAreActive
<1>3. SlotsAreOwn' /\ FreeIsEmpty' /\ DataIsInImage' /\ PurgeIsOwners' /\ RowsNameSlots' /\ PreparedStays' /\ NothingInherited' /\ ActiveHasTenant'
  BY <1>1 DEF CreateSession, Available, disks, units, reconciler, purger, IInv, SlotsAreOwn,
              FreeIsEmpty, DataIsInImage, PurgeIsOwners, RowsNameSlots, PreparedStays,
              NothingInherited, ActiveHasTenant, Existing, Registered, Taken, TypeOK
<1> QED BY <1>1, <1>2, <1>3 DEF IInv

LEMMA RevokeSessionStep ==
    ASSUME IInv, NEW a \in Accounts, RevokeSession(a)
    PROVE  IInv'
<1>1. TypeOK'
  BY DEF RevokeSession, disks, units, reconciler, purger, IInv, TypeOK
<1>2. SessionsAreActive'
  BY <1>1 DEF RevokeSession, units, reconciler, purger, IInv, SessionsAreActive
<1>3. SlotsAreOwn' /\ FreeIsEmpty' /\ DataIsInImage' /\ PurgeIsOwners' /\ RowsNameSlots' /\ PreparedStays' /\ NothingInherited' /\ ActiveHasTenant'
  BY <1>1 DEF RevokeSession, disks, units, reconciler, purger, IInv, SlotsAreOwn,
              FreeIsEmpty, DataIsInImage, PurgeIsOwners, RowsNameSlots, PreparedStays,
              NothingInherited, ActiveHasTenant, Existing, Registered, Taken, TypeOK
<1> QED BY <1>1, <1>2, <1>3 DEF IInv

LEMMA DisableUserStep ==
    ASSUME IInv, NEW a \in Accounts, DisableUser(a)
    PROVE  IInv'
<1>1. TypeOK'
  BY DEF DisableUser, disks, units, reconciler, purger, IInv, TypeOK, Existing
<1>2. SlotsAreOwn'
  BY <1>1 DEF DisableUser, units, IInv, SlotsAreOwn, Registered, TypeOK
<1>3. FreeIsEmpty'
  BY <1>1 DEF DisableUser, disks, IInv, FreeIsEmpty, Registered, Taken, TypeOK
<1>4. PurgeIsOwners'
  BY <1>1 DEF DisableUser, disks, units, purger, IInv, PurgeIsOwners
<1>5. RowsNameSlots'
  BY <1>1 DEF DisableUser, units, reconciler, IInv, RowsNameSlots, TypeOK
<1>6. PreparedStays'
  BY <1>1 DEF DisableUser, disks, units, reconciler, IInv, PreparedStays
<1>7. NothingInherited'
  BY <1>1 DEF DisableUser, disks, IInv, NothingInherited, Registered, TypeOK
<1>8. ActiveHasTenant'
  BY <1>1 DEF DisableUser, disks, units, reconciler, IInv, ActiveHasTenant
<1>9. SessionsAreActive'
  BY <1>1 DEF DisableUser, units, reconciler, purger, IInv, SessionsAreActive
<1>10. DataIsInImage'
  BY <1>1 DEF DisableUser, disks, units, reconciler, IInv, DataIsInImage
<1> QED BY <1>1, <1>2, <1>3, <1>4, <1>5, <1>6, <1>7, <1>8, <1>9, <1>10 DEF IInv

LEMMA UseStep ==
    ASSUME IInv, NEW a \in Accounts, Use(a)
    PROVE  IInv'
<1>1. TypeOK'
  BY DEF Use, accounts, units, reconciler, purger, IInv, TypeOK
<1>2. FreeIsEmpty'
  BY <1>1 DEF Use, accounts, IInv, FreeIsEmpty, Registered, Taken, TypeOK
<1>3. DataIsInImage'
  BY <1>1 DEF Use, units, reconciler, purger, IInv, DataIsInImage
<1>4. PurgeIsOwners'
  BY <1>1 DEF Use, accounts, purger, IInv, PurgeIsOwners, TypeOK, SlotsAreOwn, Registered,
              NoPurge
<1>5. NothingInherited'
  BY <1>1 DEF Use, accounts, IInv, NothingInherited, Registered, SlotsAreOwn
<1>6. SlotsAreOwn' /\ RowsNameSlots' /\ PreparedStays' /\ ActiveHasTenant' /\ SessionsAreActive'
  BY <1>1 DEF Use, accounts, units, reconciler, purger, IInv, SlotsAreOwn, RowsNameSlots,
              PreparedStays, ActiveHasTenant, SessionsAreActive, Existing, Registered,
              TypeOK
<1> QED BY <1>1, <1>2, <1>3, <1>4, <1>5, <1>6 DEF IInv

LEMMA ReadUsersStep ==
    ASSUME IInv, ReadUsers
    PROVE  IInv'
<1>1. TypeOK'
  BY DEF ReadUsers, accounts, disks, units, purger, IInv, TypeOK, SlotsAreOwn, Registered,
         Rows
<1>2. RowsNameSlots'
  BY <1>1 DEF ReadUsers, accounts, units, IInv, RowsNameSlots, Registered
<1>3. SlotsAreOwn' /\ FreeIsEmpty' /\ DataIsInImage' /\ PurgeIsOwners' /\ PreparedStays' /\ NothingInherited' /\ ActiveHasTenant' /\ SessionsAreActive'
  BY <1>1 DEF ReadUsers, accounts, disks, units, purger, IInv, SlotsAreOwn, FreeIsEmpty,
              DataIsInImage, PurgeIsOwners, PreparedStays, NothingInherited,
              ActiveHasTenant, SessionsAreActive, Existing, Registered, Taken, TypeOK
<1> QED BY <1>1, <1>2, <1>3 DEF IInv

LEMMA ReconcileStep ==
    ASSUME IInv, NEW r \in todo, Reconcile(r)
    PROVE  IInv'
<1>1. TypeOK'
  BY DEF Reconcile, StopDisabled, StopTenant, StartTenant, accounts, units, purger, IInv,
         TypeOK
<1>2. DataIsInImage'
  BY <1>1 DEF Reconcile, StartTenant, Startable, Mountable, IInv, DataIsInImage, TypeOK
<1>3. RowsNameSlots'
  BY <1>1 DEF Reconcile, accounts, units, purger, IInv, RowsNameSlots
<1>4. PreparedStays'
  BY <1>1 DEF Reconcile, accounts, units, purger, IInv, PreparedStays
<1>5. SlotsAreOwn' /\ FreeIsEmpty' /\ PurgeIsOwners' /\ NothingInherited' /\ ActiveHasTenant' /\ SessionsAreActive'
  BY <1>1 DEF Reconcile, StopDisabled, StopTenant, StartTenant, Startable, Mountable,
              accounts, units, purger, IInv, SlotsAreOwn, FreeIsEmpty, PurgeIsOwners,
              NothingInherited, ActiveHasTenant, SessionsAreActive, Existing, Registered,
              Taken, TypeOK
<1> QED BY <1>1, <1>2, <1>3, <1>4, <1>5 DEF IInv

LEMMA PrepareImageStep ==
    ASSUME IInv, PrepareImage
    PROVE  IInv'
<1>1. TypeOK'
  BY DEF PrepareImage, MakeImage, Goes, accounts, units, purger, IInv, TypeOK, Rows
<1>2. FreeIsEmpty'
  BY <1>1 DEF PrepareImage, MakeImage, Goes, accounts, IInv, FreeIsEmpty, Registered, Taken
<1>3. DataIsInImage'
  BY <1>1 DEF PrepareImage, MakeImage, Goes, units, IInv, DataIsInImage
<1>4. PurgeIsOwners'
  BY <1>1 DEF PrepareImage, MakeImage, Goes, accounts, purger, IInv, PurgeIsOwners
<1>5. PreparedStays'
  BY <1>1 DEF PrepareImage, Goes, units, purger, IInv, PreparedStays
<1>6. NothingInherited'
  BY <1>1 DEF PrepareImage, MakeImage, Goes, accounts, IInv, NothingInherited, Registered
<1>7. ActiveHasTenant'
  BY <1>1 DEF PrepareImage, Goes, accounts, units, IInv, ActiveHasTenant
<1>8. SlotsAreOwn' /\ RowsNameSlots' /\ SessionsAreActive'
  BY <1>1 DEF PrepareImage, MakeImage, Goes, accounts, units, purger, IInv, SlotsAreOwn,
              RowsNameSlots, SessionsAreActive, Existing, Registered, TypeOK
<1> QED BY <1>1, <1>2, <1>3, <1>4, <1>5, <1>6, <1>7, <1>8 DEF IInv

LEMMA PrepareFstabStep ==
    ASSUME IInv, PrepareFstab
    PROVE  IInv'
<1>1. TypeOK'
  BY DEF PrepareFstab, Goes, accounts, units, purger, IInv, TypeOK, Rows
<1>2. PreparedStays'
  BY <1>1 DEF PrepareFstab, Goes, accounts, units, IInv, PreparedStays
<1>3. SlotsAreOwn' /\ FreeIsEmpty' /\ DataIsInImage' /\ PurgeIsOwners' /\ RowsNameSlots' /\ NothingInherited' /\ ActiveHasTenant' /\ SessionsAreActive'
  BY <1>1 DEF PrepareFstab, Goes, accounts, units, purger, IInv, SlotsAreOwn, FreeIsEmpty,
              DataIsInImage, PurgeIsOwners, RowsNameSlots, NothingInherited,
              ActiveHasTenant, SessionsAreActive, Existing, Registered, Taken, TypeOK
<1> QED BY <1>1, <1>2, <1>3 DEF IInv

LEMMA PrepareMountStep ==
    ASSUME IInv, PrepareMount
    PROVE  IInv'
<1>1. TypeOK'
  BY DEF PrepareMount, Goes, Leaves, accounts, units, purger, IInv, TypeOK, Rows
<1>2. DataIsInImage'
  BY <1>1 DEF PrepareMount, Goes, Leaves, Mountable, IInv, DataIsInImage, TypeOK
<1>3. RowsNameSlots'
  BY <1>1 DEF PrepareMount, Goes, Leaves, accounts, IInv, RowsNameSlots, Rows, NoRow
<1>4. PreparedStays'
  BY <1>1 DEF PrepareMount, Goes, Leaves, accounts, IInv, PreparedStays
<1>5. ActiveHasTenant'
  BY <1>1 DEF PrepareMount, Goes, Leaves, accounts, IInv, ActiveHasTenant
<1>6. SlotsAreOwn' /\ FreeIsEmpty' /\ PurgeIsOwners' /\ NothingInherited' /\ SessionsAreActive'
  BY <1>1 DEF PrepareMount, Goes, Leaves, Mountable, accounts, units, purger, IInv,
              SlotsAreOwn, FreeIsEmpty, PurgeIsOwners, NothingInherited, SessionsAreActive,
              Existing, Registered, Taken, TypeOK
<1> QED BY <1>1, <1>2, <1>3, <1>4, <1>5, <1>6 DEF IInv

LEMMA StartPendingStep ==
    ASSUME IInv, StartPending
    PROVE  IInv'
<1>1. TypeOK'
  BY DEF StartPending, StartTenant, Goes, Leaves, accounts, purger, IInv, TypeOK, Rows
<1>2. DataIsInImage'
  BY <1>1 DEF StartPending, StartTenant, Startable, Mountable, Goes, Leaves, IInv,
              DataIsInImage, TypeOK
<1>3. RowsNameSlots'
  BY <1>1 DEF StartPending, Goes, Leaves, accounts, IInv, RowsNameSlots, Rows, NoRow
<1>4. PreparedStays'
  BY <1>1 DEF StartPending, Goes, Leaves, accounts, IInv, PreparedStays
<1>5. SlotsAreOwn' /\ FreeIsEmpty' /\ PurgeIsOwners' /\ NothingInherited' /\ ActiveHasTenant' /\ SessionsAreActive'
  BY <1>1 DEF StartPending, StartTenant, Startable, Mountable, Goes, Leaves, accounts,
              purger, IInv, SlotsAreOwn, FreeIsEmpty, PurgeIsOwners, NothingInherited,
              ActiveHasTenant, SessionsAreActive, Existing, Registered, Taken, TypeOK
<1> QED BY <1>1, <1>2, <1>3, <1>4, <1>5 DEF IInv

LEMMA ActivateStep ==
    ASSUME IInv, Activate
    PROVE  IInv'
<1>1. TypeOK'
  BY DEF Activate, Leaves, disks, units, purger, IInv, TypeOK, Existing
<1>2. SlotsAreOwn'
  BY <1>1 DEF Activate, Activates, Leaves, IInv, SlotsAreOwn, Registered, TypeOK
<1>3. FreeIsEmpty'
  BY <1>1 DEF Activate, Leaves, disks, IInv, FreeIsEmpty, Registered, Taken, TypeOK
<1>4. PurgeIsOwners'
  BY <1>1 DEF Activate, Activates, Leaves, disks, purger, IInv, PurgeIsOwners
<1>5. RowsNameSlots'
  BY <1>1 DEF Activate, Activates, Leaves, IInv, RowsNameSlots, TypeOK, Rows, NoRow
<1>6. PreparedStays'
  BY <1>1 DEF Activate, Leaves, units, purger, IInv, PreparedStays
<1>7. NothingInherited'
  BY <1>1 DEF Activate, Activates, Leaves, disks, IInv, NothingInherited, Registered, TypeOK
<1>8. ActiveHasTenant'
  BY <1>1 DEF TypeOK, disks, Activate, Activates, Leaves, IInv, RowsNameSlots,
              PreparedStays, ActiveHasTenant
<1>9. SessionsAreActive'
  BY <1>1 DEF Activate, Leaves, units, purger, IInv, SessionsAreActive
<1>10. DataIsInImage'
  BY <1>1 DEF Activate, Leaves, disks, units, IInv, DataIsInImage
<1> QED BY <1>1, <1>2, <1>3, <1>4, <1>5, <1>6, <1>7, <1>8, <1>9, <1>10 DEF IInv

LEMMA PurgeStep ==
    ASSUME IInv, NEW a \in Accounts, Purge(a)
    PROVE  IInv'
<1>1. TypeOK'
  BY DEF Purge, Purges, MayPurge, accounts, disks, units, reconciler, IInv, TypeOK,
         SlotsAreOwn
<1>2. PurgeIsOwners'
  BY <1>1 DEF Purge, Purges, MayPurge, accounts, IInv, PurgeIsOwners
<1>3. SlotsAreOwn' /\ FreeIsEmpty' /\ DataIsInImage' /\ RowsNameSlots' /\ PreparedStays' /\ NothingInherited' /\ ActiveHasTenant' /\ SessionsAreActive'
  BY <1>1 DEF Purge, Purges, MayPurge, accounts, disks, units, reconciler, IInv,
              SlotsAreOwn, FreeIsEmpty, DataIsInImage, RowsNameSlots, PreparedStays,
              NothingInherited, ActiveHasTenant, SessionsAreActive, Existing, Registered,
              Taken, TypeOK
<1> QED BY <1>1, <1>2, <1>3 DEF IInv

LEMMA PurgeStopStep ==
    ASSUME IInv, PurgeStop
    PROVE  IInv'
<1>1. TypeOK'
  BY DEF PurgeStop, Purges, PurgeGoes, StopTenant, accounts, disks, reconciler, IInv,
         TypeOK, NoPurge
<1>2. PurgeIsOwners'
  BY <1>1 DEF PurgeStop, Purges, PurgeGoes, accounts, IInv, PurgeIsOwners
<1>3. SlotsAreOwn' /\ FreeIsEmpty' /\ DataIsInImage' /\ RowsNameSlots' /\ PreparedStays' /\ NothingInherited' /\ ActiveHasTenant' /\ SessionsAreActive'
  BY <1>1 DEF PurgeStop, Purges, PurgeGoes, StopTenant, accounts, disks, reconciler, IInv,
              SlotsAreOwn, FreeIsEmpty, DataIsInImage, RowsNameSlots, PreparedStays,
              NothingInherited, ActiveHasTenant, SessionsAreActive, Existing, Registered,
              Taken, TypeOK
<1> QED BY <1>1, <1>2, <1>3 DEF IInv

LEMMA PurgeCheckStep ==
    ASSUME IInv, PurgeCheck
    PROVE  IInv'
<1>1. TypeOK'
  BY DEF PurgeCheck, Purges, PurgeGoes, accounts, disks, units, reconciler, IInv, TypeOK,
         NoPurge
<1>2. PurgeIsOwners'
  BY <1>1 DEF PurgeCheck, Purges, PurgeGoes, accounts, IInv, PurgeIsOwners, TypeOK, NoPurge
<1>3. SlotsAreOwn' /\ FreeIsEmpty' /\ DataIsInImage' /\ RowsNameSlots' /\ PreparedStays' /\ NothingInherited' /\ ActiveHasTenant' /\ SessionsAreActive'
  BY <1>1 DEF PurgeCheck, Purges, PurgeGoes, accounts, disks, units, reconciler, IInv,
              SlotsAreOwn, FreeIsEmpty, DataIsInImage, RowsNameSlots, PreparedStays,
              NothingInherited, ActiveHasTenant, SessionsAreActive, Existing, Registered,
              Taken, TypeOK
<1> QED BY <1>1, <1>2, <1>3 DEF IInv

LEMMA PurgeUmountStep ==
    ASSUME IInv, PurgeUmount
    PROVE  IInv'
<1>1. TypeOK'
  BY DEF PurgeUmount, Purges, PurgeGoes, accounts, units, reconciler, IInv, TypeOK, NoPurge
<1>2. FreeIsEmpty'
  BY <1>1 DEF PurgeUmount, Purges, PurgeGoes, accounts, IInv, FreeIsEmpty, Registered,
              Taken, TypeOK
<1>3. DataIsInImage'
  BY <1>1 DEF PurgeUmount, Purges, PurgeGoes, IInv, DataIsInImage, TypeOK
<1>4. PurgeIsOwners'
  BY <1>1 DEF PurgeUmount, Purges, PurgeGoes, accounts, IInv, PurgeIsOwners, TypeOK, NoPurge
<1>5. NothingInherited'
  BY <1>1 DEF PurgeUmount, Purges, PurgeGoes, accounts, IInv, NothingInherited, Registered,
              TypeOK, SlotsAreOwn
<1>6. SlotsAreOwn' /\ RowsNameSlots' /\ PreparedStays' /\ ActiveHasTenant' /\ SessionsAreActive'
  BY <1>1 DEF PurgeUmount, Purges, PurgeGoes, accounts, units, reconciler, IInv,
              SlotsAreOwn, RowsNameSlots, PreparedStays, ActiveHasTenant, SessionsAreActive,
              Existing, Registered, TypeOK
<1> QED BY <1>1, <1>2, <1>3, <1>4, <1>5, <1>6 DEF IInv

LEMMA PurgeReadFstabStep ==
    ASSUME IInv, PurgeReadFstab
    PROVE  IInv'
<1>1. TypeOK'
  BY DEF PurgeReadFstab, Purges, PurgeGoes, accounts, disks, units, reconciler, IInv,
         TypeOK, NoPurge
<1>2. PurgeIsOwners'
  BY <1>1 DEF PurgeReadFstab, Purges, PurgeGoes, accounts, IInv, PurgeIsOwners
<1>3. SlotsAreOwn' /\ FreeIsEmpty' /\ DataIsInImage' /\ RowsNameSlots' /\ PreparedStays' /\ NothingInherited' /\ ActiveHasTenant' /\ SessionsAreActive'
  BY <1>1 DEF PurgeReadFstab, Purges, PurgeGoes, accounts, disks, units, reconciler, IInv,
              SlotsAreOwn, FreeIsEmpty, DataIsInImage, RowsNameSlots, PreparedStays,
              NothingInherited, ActiveHasTenant, SessionsAreActive, Existing, Registered,
              Taken, TypeOK
<1> QED BY <1>1, <1>2, <1>3 DEF IInv

LEMMA PurgeWriteFstabStep ==
    ASSUME IInv, PurgeWriteFstab
    PROVE  IInv'
<1>1. TypeOK'
  BY DEF PurgeWriteFstab, Purges, PurgeGoes, accounts, units, reconciler, IInv, TypeOK,
         NoPurge
<1>2. PurgeIsOwners'
  BY <1>1 DEF PurgeWriteFstab, Purges, PurgeGoes, accounts, IInv, PurgeIsOwners
<1>3. SlotsAreOwn' /\ FreeIsEmpty' /\ DataIsInImage' /\ RowsNameSlots' /\ PreparedStays' /\ NothingInherited' /\ ActiveHasTenant' /\ SessionsAreActive'
  BY <1>1 DEF PurgeWriteFstab, Purges, PurgeGoes, accounts, units, reconciler, IInv,
              SlotsAreOwn, FreeIsEmpty, DataIsInImage, RowsNameSlots, PreparedStays,
              NothingInherited, ActiveHasTenant, SessionsAreActive, Existing, Registered,
              Taken, TypeOK
<1> QED BY <1>1, <1>2, <1>3 DEF IInv

LEMMA PurgeUnlinkStep ==
    ASSUME IInv, PurgeUnlink
    PROVE  IInv'
<1>1. TypeOK'
  BY DEF PurgeUnlink, Purges, PurgeGoes, accounts, units, reconciler, IInv, TypeOK, NoPurge
<1>2. FreeIsEmpty'
  BY <1>1 DEF PurgeUnlink, Purges, PurgeGoes, accounts, IInv, FreeIsEmpty, Registered, Taken
<1>3. DataIsInImage'
  BY <1>1 DEF PurgeUnlink, Purges, PurgeGoes, IInv, DataIsInImage, TypeOK
<1>4. PurgeIsOwners'
  BY <1>1 DEF PurgeUnlink, Purges, PurgeGoes, accounts, IInv, PurgeIsOwners, TypeOK
<1>5. PreparedStays'
  BY <1>1 DEF TypeOK, accounts, reconciler, Rows, NoPurge, PurgeUnlink, Purges, PurgeGoes,
              IInv, SlotsAreOwn, PurgeIsOwners, RowsNameSlots, PreparedStays, Registered
<1>6. NothingInherited'
  BY <1>1 DEF PurgeUnlink, Purges, PurgeGoes, accounts, IInv, NothingInherited, Registered
<1>7. ActiveHasTenant'
  BY <1>1 DEF PurgeUnlink, Purges, PurgeGoes, accounts, IInv, ActiveHasTenant, TypeOK,
              SlotsAreOwn, Registered, PurgeIsOwners, NoPurge
<1>8. SlotsAreOwn' /\ RowsNameSlots' /\ SessionsAreActive'
  BY <1>1 DEF PurgeUnlink, Purges, PurgeGoes, accounts, units, reconciler, IInv,
              SlotsAreOwn, RowsNameSlots, SessionsAreActive, Existing, Registered, TypeOK
<1> QED BY <1>1, <1>2, <1>3, <1>4, <1>5, <1>6, <1>7, <1>8 DEF IInv

LEMMA PurgeRemoveStep ==
    ASSUME IInv, PurgeRemove
    PROVE  IInv'
<1>1. TypeOK'
  BY DEF PurgeRemove, Purges, PurgeGoes, accounts, units, reconciler, IInv, TypeOK, NoPurge
<1>2. FreeIsEmpty'
  BY <1>1 DEF PurgeRemove, Purges, PurgeGoes, accounts, IInv, FreeIsEmpty, Registered, Taken
<1>3. DataIsInImage'
  BY <1>1 DEF PurgeRemove, Purges, PurgeGoes, units, IInv, DataIsInImage
<1>4. PurgeIsOwners'
  BY <1>1 DEF PurgeRemove, Purges, PurgeGoes, accounts, IInv, PurgeIsOwners, TypeOK, NoPurge
<1>5. PreparedStays'
  BY <1>1 DEF TypeOK, accounts, reconciler, Rows, NoPurge, PurgeRemove, Purges, PurgeGoes,
              IInv, SlotsAreOwn, PurgeIsOwners, RowsNameSlots, PreparedStays, Registered
<1>6. NothingInherited'
  BY <1>1 DEF PurgeRemove, Purges, PurgeGoes, accounts, IInv, NothingInherited, Registered
<1>7. ActiveHasTenant'
  BY <1>1 DEF PurgeRemove, Purges, PurgeGoes, accounts, IInv, ActiveHasTenant, TypeOK,
              SlotsAreOwn, Registered, PurgeIsOwners, NoPurge
<1>8. SlotsAreOwn' /\ RowsNameSlots' /\ SessionsAreActive'
  BY <1>1 DEF PurgeRemove, Purges, PurgeGoes, accounts, units, reconciler, IInv,
              SlotsAreOwn, RowsNameSlots, SessionsAreActive, Existing, Registered, TypeOK
<1> QED BY <1>1, <1>2, <1>3, <1>4, <1>5, <1>6, <1>7, <1>8 DEF IInv

LEMMA PurgeCommitStep ==
    ASSUME IInv, PurgeCommit
    PROVE  IInv'
<1>1. TypeOK'
  BY DEF PurgeCommit, Purges, disks, units, reconciler, IInv, TypeOK
<1>2. SlotsAreOwn'
  BY <1>1 DEF PurgeCommit, Purges, IInv, SlotsAreOwn, Existing, Registered, TypeOK
<1>3. FreeIsEmpty'
  BY <1>1 DEF PurgeCommit, Purges, disks, IInv, FreeIsEmpty, Registered, Taken, TypeOK,
              PurgeIsOwners
<1>4. PurgeIsOwners'
  BY <1>1 DEF PurgeCommit, Purges, units, IInv, PurgeIsOwners, NoPurge
<1>5. RowsNameSlots'
  BY <1>1 DEF PurgeCommit, Purges, reconciler, IInv, RowsNameSlots, Existing, TypeOK, Rows
<1>6. PreparedStays'
  BY <1>1 DEF PurgeCommit, Purges, disks, reconciler, IInv, PreparedStays, TypeOK, Rows
<1>7. NothingInherited'
  BY <1>1 DEF PurgeCommit, Purges, disks, IInv, NothingInherited, Existing, Registered,
              TypeOK
<1>8. ActiveHasTenant'
  BY <1>1 DEF PurgeCommit, Purges, disks, IInv, ActiveHasTenant, TypeOK
<1>9. SessionsAreActive'
  BY <1>1 DEF PurgeCommit, Purges, units, IInv, SessionsAreActive, TypeOK
<1>10. DataIsInImage'
  BY <1>1 DEF PurgeCommit, Purges, disks, units, IInv, DataIsInImage
<1> QED BY <1>1, <1>2, <1>3, <1>4, <1>5, <1>6, <1>7, <1>8, <1>9, <1>10 DEF IInv

LEMMA RebootStep ==
    ASSUME IInv, Reboot
    PROVE  IInv'
<1>1. TypeOK'
  BY DEF Reboot, Mountable, IInv, TypeOK
<1>2. FreeIsEmpty'
  BY <1>1 DEF Reboot, IInv, FreeIsEmpty, Registered, Taken, TypeOK
<1>3. DataIsInImage'
  BY <1>1 DEF Reboot, Mountable, IInv, DataIsInImage, TypeOK
<1>4. PurgeIsOwners'
  BY <1>1 DEF Reboot, IInv, PurgeIsOwners, TypeOK, Rows, NoPurge
<1>5. RowsNameSlots'
  BY <1>1 DEF Reboot, IInv, RowsNameSlots, TypeOK, Rows, NoRow
<1>6. PreparedStays'
  BY <1>1 DEF Reboot, Mountable, IInv, PreparedStays, TypeOK
<1>7. NothingInherited'
  BY <1>1 DEF Reboot, IInv, NothingInherited, Registered, TypeOK, SlotsAreOwn
<1>8. SlotsAreOwn' /\ ActiveHasTenant' /\ SessionsAreActive'
  BY <1>1 DEF Reboot, Mountable, IInv, SlotsAreOwn, ActiveHasTenant, SessionsAreActive,
              Existing, Registered, TypeOK
<1> QED BY <1>1, <1>2, <1>3, <1>4, <1>5, <1>6, <1>7, <1>8 DEF IInv

-----------------------------------------------------------------------------
LEMMA StutterStep ==
    ASSUME IInv, UNCHANGED vars
    PROVE  IInv'
  BY DEF vars, accounts, disks, units, reconciler, purger, IInv, TypeOK, SlotsAreOwn,
         FreeIsEmpty, DataIsInImage, PurgeIsOwners, RowsNameSlots, PreparedStays,
         NothingInherited, ActiveHasTenant, SessionsAreActive, Registered, Taken

LEMMA GatewayStep ==
    ASSUME IInv, Gateway
    PROVE  IInv'
<1>1. ASSUME NEW a \in Accounts, CreateInvitation(a) PROVE IInv'
  BY <1>1, CreateInvitationStep
<1>2. ASSUME NEW a \in Accounts, InvitationExpires(a) PROVE IInv'
  BY <1>2, InvitationExpiresStep
<1>3. ASSUME NEW a \in Accounts, NEW s \in Slots, RedeemInvitation(a, s) PROVE IInv'
  BY <1>3, RedeemInvitationStep
<1>4. ASSUME NEW a \in Accounts, VerifyPassword(a) PROVE IInv'
  BY <1>4, VerifyPasswordStep
<1>5. ASSUME NEW a \in Accounts, CreateSession(a) PROVE IInv'
  BY <1>5, CreateSessionStep
<1>6. ASSUME NEW a \in Accounts, RevokeSession(a) PROVE IInv'
  BY <1>6, RevokeSessionStep
<1>7. ASSUME NEW a \in Accounts, DisableUser(a) PROVE IInv'
  BY <1>7, DisableUserStep
<1>8. ASSUME NEW a \in Accounts, Use(a) PROVE IInv'
  BY <1>8, UseStep
<1> QED BY <1>1, <1>2, <1>3, <1>4, <1>5, <1>6, <1>7, <1>8 DEF Gateway

LEMMA ReconcilerStep ==
    ASSUME IInv, Reconciler
    PROVE  IInv'
<1>1. CASE ReadUsers
  BY <1>1, ReadUsersStep
<1>2. ASSUME NEW r \in todo, Reconcile(r) PROVE IInv'
  BY <1>2, ReconcileStep
<1>3. CASE PrepareImage
  BY <1>3, PrepareImageStep
<1>4. CASE PrepareFstab
  BY <1>4, PrepareFstabStep
<1>5. CASE PrepareMount
  BY <1>5, PrepareMountStep
<1>6. CASE StartPending
  BY <1>6, StartPendingStep
<1>7. CASE Activate
  BY <1>7, ActivateStep
<1> QED BY <1>1, <1>2, <1>3, <1>4, <1>5, <1>6, <1>7 DEF Reconciler

LEMMA PurgerStep ==
    ASSUME IInv, Purger
    PROVE  IInv'
<1>1. ASSUME NEW a \in Accounts, Purge(a) PROVE IInv'
  BY <1>1, PurgeStep
<1>2. CASE PurgeStop
  BY <1>2, PurgeStopStep
<1>3. CASE PurgeCheck
  BY <1>3, PurgeCheckStep
<1>4. CASE PurgeUmount
  BY <1>4, PurgeUmountStep
<1>5. CASE PurgeReadFstab
  BY <1>5, PurgeReadFstabStep
<1>6. CASE PurgeWriteFstab
  BY <1>6, PurgeWriteFstabStep
<1>7. CASE PurgeUnlink
  BY <1>7, PurgeUnlinkStep
<1>8. CASE PurgeRemove
  BY <1>8, PurgeRemoveStep
<1>9. CASE PurgeCommit
  BY <1>9, PurgeCommitStep
<1> QED BY <1>1, <1>2, <1>3, <1>4, <1>5, <1>6, <1>7, <1>8, <1>9 DEF Purger

LEMMA NextStep ==
    ASSUME IInv, [Next]_vars
    PROVE  IInv'
  BY GatewayStep, ReconcilerStep, PurgerStep, RebootStep, StutterStep DEF Next

LEMMA Invariance == Spec => []IInv
  BY InitIInv, NextStep, PTL DEF Spec

-----------------------------------------------------------------------------
(* Every variable keeps to its type: users' rows (store.py:45-80), disks,  *)
(* units and the steps of reconcile and purge (aw_provision.py).           *)
THEOREM TypeCorrect == Spec => []TypeOK
<1>1. IInv => TypeOK
  BY DEF IInv
<1> QED BY <1>1, Invariance, PTL

(* No slot holds data of anyone but its account: purge empties a slot      *)
(* before the row that occupies it goes (aw_provision.py:360-395).         *)
THEOREM NoInheritance == Spec => []NothingInherited
<1>1. IInv => NothingInherited
  BY DEF IInv
<1> QED BY <1>1, Invariance, PTL

(* An account that provisioning activated has its image and its secrets    *)
(* (aw_provision.py:4-8), whatever purge and reboots do to other slots.    *)
THEOREM TenantsExist == Spec => []ActiveHasTenant
<1>1. IInv => ActiveHasTenant
  BY DEF IInv
<1> QED BY <1>1, Invariance, PTL

(* A session belongs to an active account: disabling one revokes its       *)
(* sessions, and no login in progress opens another (store.py:263-272).    *)
THEOREM NoSessionAfterDisable == Spec => []SessionsAreActive
<1>1. IInv => SessionsAreActive
  BY DEF IInv
<1> QED BY <1>1, Invariance, PTL

-----------------------------------------------------------------------------
(* Five actions change what images hold: a request adds to one, an image   *)
(* that is made replaces none, and the purge empties its owner's slot.     *)
LEMMA KeptStep ==
    ASSUME IInv, [Next]_vars
    PROVE  DataKept
<1>1. ASSUME NEW a \in Accounts, Use(a) PROVE DataKept
  BY <1>1 DEF Use, DataKept, IInv, TypeOK, Registered, Existing
<1>2. CASE PrepareImage
  BY <1>2 DEF PrepareImage, MakeImage, DataKept, DataIsInImage, IInv, TypeOK, SlotsAreOwn,
              Registered, Existing
<1>3. CASE PurgeUnlink
  BY <1>3 DEF PurgeUnlink, Purges, DataKept, PurgeIsOwners, IInv, TypeOK, SlotsAreOwn, purger,
              NoPurge, Registered, Existing
<1>4. CASE PurgeRemove
  BY <1>4 DEF PurgeRemove, Purges, DataKept, PurgeIsOwners, IInv, TypeOK, SlotsAreOwn, purger,
              NoPurge, Registered, Existing
<1>5. ASSUME data' = data PROVE DataKept
  BY <1>5 DEF DataKept
<1>6. ASSUME NEW a \in Accounts, CreateInvitation(a) \/ InvitationExpires(a)
                 \/ VerifyPassword(a) \/ CreateSession(a) \/ RevokeSession(a) \/ DisableUser(a)
                 \/ Purge(a) \/ \E s \in Slots : RedeemInvitation(a, s)
      PROVE  data' = data
  BY <1>6 DEF CreateInvitation, InvitationExpires, RedeemInvitation, VerifyPassword,
              CreateSession, RevokeSession, DisableUser, Purge, disks
<1>7. ASSUME ReadUsers \/ (\E r \in todo : Reconcile(r)) \/ PrepareFstab \/ PrepareMount
                 \/ StartPending \/ Activate
      PROVE  data' = data
  BY <1>7 DEF ReadUsers, Reconcile, PrepareFstab, PrepareMount, StartPending, Activate, disks
<1>8. ASSUME PurgeStop \/ PurgeCheck \/ PurgeUmount \/ PurgeReadFstab \/ PurgeWriteFstab
                 \/ PurgeCommit \/ Reboot \/ UNCHANGED vars
      PROVE  data' = data
  BY <1>8 DEF PurgeStop, PurgeCheck, PurgeUmount, PurgeReadFstab, PurgeWriteFstab,
              PurgeCommit, Reboot, vars, disks
<1> QED
  BY <1>1, <1>2, <1>3, <1>4, <1>5, <1>6, <1>7, <1>8 DEF Next, Gateway, Reconciler, Purger

(* "Data is kept" (aw_provision.py:8): no step but the purge of a disabled *)
(* account removes the account's data from its slot.                       *)
THEOREM KeepsData == Spec => DataIsKept
<1>1. IInv /\ [Next]_vars => DataKept
  BY KeptStep
<1> QED BY <1>1, Invariance, PTL DEF Spec, DataIsKept


-----------------------------------------------------------------------------
(* The owner's import.  What is on the slot's disk while it runs is of no   *)
(* use, but nobody starts the unit then: before the lock nothing has        *)
(* changed, and behind the lock it does not start. A unit that is on behind *)
(* the lock is one that systemd did not stop before.                        *)

AtData == {"remove", "extract"}
AtSecrets == {"check", "seed", "code", "shred", "rmtree", "unlock"}
Locked == AtData \union {"rekey", "env"} \union AtSecrets

ImportInv ==
    /\ at # "idle" => ~timer /\ ~starting
    /\ at = "lock" => ~up \/ unstopped
    /\ at \in Locked => lock
    /\ lock => ~up \/ unstopped
    /\ ~lock => content \notin {"part", "leftovers"} /\ Owner!Whole

ProgressInv ==
    /\ at \in {"rekey", "env"} \union AtSecrets => content \in {"import", "mixed"}
    /\ at \in {"env"} \union AtSecrets => vault = "own"
    /\ at \in AtSecrets => env = "owner"
    /\ at \in {"code", "shred", "rmtree", "unlock"} => owner # "none"
    /\ at \notin {"idle", "rmtree", "unlock", "start"} => source = "whole"
    /\ source # "whole" => content \in {"import", "mixed"} /\ vault = "own" /\ env = "owner" /\ owner # "none"

PasswordInv ==
    /\ owner \in {"none", "new", "claimed"} => passwords = <<>>
    /\ passwords = <<>> \/ \E p \in Passwords : passwords = <<p>>

OwnerInv == ImportInv /\ ProgressInv /\ PasswordInv

\* The steps of an import.
LEMMA ImportGoesOn ==
    ASSUME ImportInv, ProgressInv,
           \/ \E discard \in BOOLEAN : Owner!Import(discard)
           \/ Owner!PrepareSlot \/ Owner!StopUnit \/ Owner!Lock \/ Owner!RemoveSome \/ Owner!Removed
           \/ Owner!Extracted \/ Owner!RekeyVault \/ Owner!WriteOwnerEnv \/ Owner!CheckDatabase
    PROVE  ImportInv' /\ ProgressInv' /\ UNCHANGED <<owner, passwords>>
<1>1. CASE \E discard \in BOOLEAN : Owner!Import(discard)
  BY <1>1 DEF Owner!Import, ImportInv, ProgressInv, Locked, AtData, AtSecrets, Owner!Whole,
     Owner!Goes, Owner!Leaves, Owner!Start, Owner!Startable, Owner!Stop, Owner!slot, Owner!unit, Owner!import,
     Owner!gateway
<1>2. CASE Owner!PrepareSlot
  BY <1>2 DEF Owner!PrepareSlot, ImportInv, ProgressInv, Locked, AtData, AtSecrets, Owner!Whole,
     Owner!Goes, Owner!Leaves, Owner!Start, Owner!Startable, Owner!Stop, Owner!slot, Owner!unit, Owner!import,
     Owner!gateway
<1>3. CASE Owner!StopUnit
  BY <1>3 DEF Owner!StopUnit, ImportInv, ProgressInv, Locked, AtData, AtSecrets, Owner!Whole,
     Owner!Goes, Owner!Leaves, Owner!Start, Owner!Startable, Owner!Stop, Owner!slot, Owner!unit, Owner!import,
     Owner!gateway
<1>4. CASE Owner!Lock
  BY <1>4 DEF Owner!Lock, ImportInv, ProgressInv, Locked, AtData, AtSecrets, Owner!Whole,
     Owner!Goes, Owner!Leaves, Owner!Start, Owner!Startable, Owner!Stop, Owner!slot, Owner!unit, Owner!import,
     Owner!gateway
<1>5. CASE Owner!RemoveSome
  BY <1>5 DEF Owner!RemoveSome, ImportInv, ProgressInv, Locked, AtData, AtSecrets, Owner!Whole,
     Owner!Goes, Owner!Leaves, Owner!Start, Owner!Startable, Owner!Stop, Owner!slot, Owner!unit, Owner!import,
     Owner!gateway
<1>6. CASE Owner!Removed
  BY <1>6 DEF Owner!Removed, ImportInv, ProgressInv, Locked, AtData, AtSecrets, Owner!Whole,
     Owner!Goes, Owner!Leaves, Owner!Start, Owner!Startable, Owner!Stop, Owner!slot, Owner!unit, Owner!import,
     Owner!gateway
<1>7. CASE Owner!Extracted
  BY <1>7 DEF Owner!Extracted, ImportInv, ProgressInv, Locked, AtData, AtSecrets, Owner!Whole,
     Owner!Goes, Owner!Leaves, Owner!Start, Owner!Startable, Owner!Stop, Owner!slot, Owner!unit, Owner!import,
     Owner!gateway
<1>8. CASE Owner!RekeyVault
  BY <1>8 DEF Owner!RekeyVault, ImportInv, ProgressInv, Locked, AtData, AtSecrets, Owner!Whole,
     Owner!Goes, Owner!Leaves, Owner!Start, Owner!Startable, Owner!Stop, Owner!slot, Owner!unit, Owner!import,
     Owner!gateway
<1>9. CASE Owner!WriteOwnerEnv \/ Owner!CheckDatabase
  BY <1>9 DEF Owner!WriteOwnerEnv, Owner!CheckDatabase, ImportInv, ProgressInv, Locked, AtData, AtSecrets, Owner!Whole,
     Owner!Goes, Owner!Leaves, Owner!Start, Owner!Startable, Owner!Stop, Owner!slot, Owner!unit, Owner!import,
     Owner!gateway
<1> QED
  BY <1>1, <1>2, <1>3, <1>4, <1>5, <1>6, <1>7, <1>8, <1>9

LEMMA ImportComesToAnEnd ==
    ASSUME OwnerInv,
           \/ Owner!SeedOwner \/ Owner!WriteCode \/ Owner!Shred \/ Owner!Unlock \/ Owner!StartUnit
           \/ Owner!ImportFails
    PROVE  OwnerInv'
<1>1. CASE Owner!SeedOwner
  BY <1>1 DEF Owner!SeedOwner, OwnerInv, PasswordInv, ImportInv, ProgressInv, Locked, AtData, AtSecrets, Owner!Whole,
     Owner!Goes, Owner!Leaves, Owner!Start, Owner!Startable, Owner!Stop, Owner!slot, Owner!unit, Owner!import,
     Owner!gateway
<1>2. CASE Owner!WriteCode
  BY <1>2 DEF Owner!WriteCode, OwnerInv, PasswordInv, ImportInv, ProgressInv, Locked, AtData, AtSecrets, Owner!Whole,
     Owner!Goes, Owner!Leaves, Owner!Start, Owner!Startable, Owner!Stop, Owner!slot, Owner!unit, Owner!import,
     Owner!gateway
<1>3. CASE Owner!Shred
  BY <1>3 DEF Owner!Shred, OwnerInv, PasswordInv, ImportInv, ProgressInv, Locked, AtData, AtSecrets, Owner!Whole,
     Owner!Goes, Owner!Leaves, Owner!Start, Owner!Startable, Owner!Stop, Owner!slot, Owner!unit, Owner!import,
     Owner!gateway
<1>4. CASE Owner!Unlock
  BY <1>4 DEF Owner!Unlock, OwnerInv, PasswordInv, ImportInv, ProgressInv, Locked, AtData, AtSecrets, Owner!Whole,
     Owner!Goes, Owner!Leaves, Owner!Start, Owner!Startable, Owner!Stop, Owner!slot, Owner!unit, Owner!import,
     Owner!gateway
<1>5. CASE Owner!StartUnit
  BY <1>5 DEF Owner!StartUnit, OwnerInv, PasswordInv, ImportInv, ProgressInv, Locked, AtData, AtSecrets, Owner!Whole,
     Owner!Goes, Owner!Leaves, Owner!Start, Owner!Startable, Owner!Stop, Owner!slot, Owner!unit, Owner!import,
     Owner!gateway
<1>6. CASE Owner!ImportFails
  BY <1>6 DEF Owner!ImportFails, OwnerInv, PasswordInv, ImportInv, ProgressInv, Locked, AtData, AtSecrets, Owner!Whole,
     Owner!Goes, Owner!Leaves, Owner!Start, Owner!Startable, Owner!Stop, Owner!slot, Owner!unit, Owner!import,
     Owner!gateway
<1> QED
  BY <1>1, <1>2, <1>3, <1>4, <1>5, <1>6

\* What else starts and stops the unit.
LEMMA UnitsKeepTheLock ==
    ASSUME OwnerInv, Owner!Reconcile \/ Owner!ReconcileStarts \/ Owner!Reboot
    PROVE  OwnerInv'
<1>1. CASE Owner!Reconcile
  BY <1>1 DEF Owner!Reconcile, OwnerInv, PasswordInv, ImportInv, ProgressInv, Locked, AtData, AtSecrets, Owner!Whole,
     Owner!Goes, Owner!Leaves, Owner!Start, Owner!Startable, Owner!Stop, Owner!slot, Owner!unit, Owner!import,
     Owner!gateway
<1>2. CASE Owner!ReconcileStarts
  BY <1>2 DEF Owner!ReconcileStarts, OwnerInv, PasswordInv, ImportInv, ProgressInv, Locked, AtData, AtSecrets, Owner!Whole,
     Owner!Goes, Owner!Leaves, Owner!Start, Owner!Startable, Owner!Stop, Owner!slot, Owner!unit, Owner!import,
     Owner!gateway
<1>3. CASE Owner!Reboot
  BY <1>3 DEF Owner!Reboot, OwnerInv, PasswordInv, ImportInv, ProgressInv, Locked, AtData, AtSecrets, Owner!Whole,
     Owner!Goes, Owner!Leaves, Owner!Start, Owner!Startable, Owner!Stop, Owner!slot, Owner!unit, Owner!import,
     Owner!gateway
<1> QED
  BY <1>1, <1>2, <1>3

\* What the gateway does for the owner: a password is set once.
LEMMA OwnerSignsIn ==
    ASSUME OwnerInv,
           \/ Owner!Claim \/ Owner!Expire
           \/ \E p \in Passwords : Owner!ChangePassword(p) \/ Owner!FinishPasswordChange(p)
    PROVE  OwnerInv'
<1>1. /\ UNCHANGED <<at, timer, starting, up, unstopped, lock, content, vault, env, source>>
      /\ owner # "none" => owner' # "none"
  BY DEF Owner!Claim, Owner!Expire, Owner!ChangePassword, Owner!FinishPasswordChange, Owner!MayClaim,
     Owner!slot, Owner!unit, Owner!import
<1>2. ImportInv' /\ ProgressInv'
  BY <1>1 DEF OwnerInv, ImportInv, ProgressInv, Owner!Whole
<1>3. PasswordInv'
  <2>1. CASE Owner!Claim
    BY <2>1 DEF Owner!Claim, Owner!MayClaim, OwnerInv, PasswordInv
  <2>2. CASE Owner!Expire \/ \E p \in Passwords : Owner!ChangePassword(p)
    BY <2>2 DEF Owner!Expire, Owner!ChangePassword, OwnerInv, PasswordInv
  <2>3. ASSUME NEW p \in Passwords, Owner!FinishPasswordChange(p) PROVE PasswordInv'
    <3>1. CASE Owner!StillBootstrap
      <4>1. owner' = "done" /\ passwords = <<>> /\ passwords' = Append(passwords, p)
        BY <2>3, <3>1 DEF Owner!FinishPasswordChange, Owner!StillBootstrap, OwnerInv, PasswordInv
      <4>2. passwords' = <<p>>
        BY <4>1
      <4> QED
        BY <4>1, <4>2 DEF PasswordInv
    <3>2. CASE ~Owner!StillBootstrap
      BY <2>3, <3>2 DEF Owner!FinishPasswordChange, OwnerInv, PasswordInv
    <3> QED
      BY <3>1, <3>2
  <2> QED
    BY <2>1, <2>2, <2>3
<1> QED
  BY <1>2, <1>3 DEF OwnerInv

LEMMA OwnerStep ==
    ASSUME OwnerInv, [Owner!Next]_(Owner!vars)
    PROVE  OwnerInv'
<1>1. CASE UNCHANGED Owner!vars
  BY <1>1 DEF Owner!vars, OwnerInv, PasswordInv, ImportInv, ProgressInv, Locked, AtData, AtSecrets, Owner!Whole,
     Owner!Goes, Owner!Leaves, Owner!Start, Owner!Startable, Owner!Stop, Owner!slot, Owner!unit, Owner!import,
     Owner!gateway
<1> QED
  BY <1>1, ImportGoesOn, ImportComesToAnEnd, UnitsKeepTheLock, OwnerSignsIn DEF Owner!Next, OwnerInv, PasswordInv

\* The slot's unit runs on a whole data set or not at all, the old key is not destroyed before
\* that set is in place, and one new password is accepted: whatever step of an import fails
\* or is cut short (import_slot, import_owner.py; finish_owner_password_change, store.py),
\* but for a unit that systemd did not stop when the import told it to.
THEOREM ImportsAreWhole == Owner!Spec => []ImportIsWhole
<1>1. Owner!Init => OwnerInv
  BY DEF Owner!Init, OwnerInv, PasswordInv, ImportInv, ProgressInv, Locked, AtData, AtSecrets, Owner!Whole,
     Owner!Goes, Owner!Leaves, Owner!Start, Owner!Startable, Owner!Stop, Owner!slot, Owner!unit, Owner!import,
     Owner!gateway
<1>2. OwnerInv /\ [Owner!Next]_(Owner!vars) => OwnerInv'
  BY OwnerStep
<1>3. OwnerInv => ImportIsWhole
  <2> SUFFICES ASSUME OwnerInv PROVE ImportIsWhole
    OBVIOUS
  <2>1. Len(passwords) <= 1
    <3>1. passwords = <<>> \/ \E p \in Passwords : passwords = <<p>>
      BY DEF OwnerInv, PasswordInv
    <3>2. \A p \in Passwords : Len(<<p>>) = 1
      OBVIOUS
    <3>3. Len(<<>>) = 0
      OBVIOUS
    <3> QED
      BY <3>1, <3>2, <3>3
  <2>2. up /\ ~unstopped => content \notin {"part", "leftovers"} /\ Owner!Whole
    BY DEF OwnerInv, ImportInv
  <2>3. source # "whole" => content \in {"import", "mixed"} /\ Owner!Whole /\ owner # "none"
    BY DEF OwnerInv, ProgressInv, Owner!Whole
  <2> QED
    BY <2>1, <2>2, <2>3 DEF ImportIsWhole, Owner!ImportIsWhole
<1> QED
  BY <1>1, <1>2, <1>3, PTL DEF Owner!Spec
=============================================================================
