---------------------------- MODULE DashboardKeys -----------------------------
(***************************************************************************)
(* The keys of the SEO dashboard that is embedded in GoHighLevel.          *)
(*                                                                         *)
(* For each location of an organization a key is issued and its url is     *)
(* published as a custom value of the location, which lives at             *)
(* GoHighLevel.  Connecting, and every sign-in, provisions: the values are *)
(* read, the key of the first is verified, and unless it opens this        *)
(* location's dashboard a new key is issued, published, and the old one    *)
(* revoked.  These are separate calls to two systems.  Users make and      *)
(* revoke keys by hand and copy the values of a location to another.       *)
(***************************************************************************)
EXTENDS Integers, Sequences, SequencesExt

CONSTANTS
  Key, NoKey,
  KeyLocation,   \* locations of the organization
  Provisioner,   \* overlapping provisionings
  MaxKeyEvents   \* bound on actions of users and on faults

ASSUME KeyAssumption == NoKey \notin Key /\ MaxKeyEvents \in Nat

VARIABLES
  key,        \* api_keys: absent, or the location and whether it is revoked
  values,     \* per location, the keys in its custom values of that name
  provisioner,\* where each provisioning is
  edited,     \* locations whose value a user wrote since it was last checked
  lostKeys,   \* published keys that were revoked (see PublishedIsLive)
  stray,      \* keys that no one will publish or revoke (see KeysAccounted)
  keyEvents

keyVars == <<key, values, provisioner, edited, lostKeys, stray, keyEvents>>

Absent == [state |-> "absent"]
Resting == [at |-> "idle"]
Steps == {"idle", "reading", "checking", "issuing", "publishing", "revoking"}
Active(k) == k \in Key /\ key[k].state = "active"
Published(l) == IF values[l] = <<>> THEN NoKey ELSE Head(values[l])
InHand == {provisioner[p].key : p \in
             {p \in Provisioner : provisioner[p].at = "publishing"}}

KeysTypeOK ==
  /\ \A k \in Key : key[k] = Absent
       \/ key[k] \in [state : {"active", "revoked"}, at : KeyLocation,
                      byHand : BOOLEAN]
  /\ values \in [KeyLocation -> Seq(Key)]
  /\ \A p \in Provisioner : provisioner[p].at \in Steps
  /\ edited \subseteq KeyLocation
  /\ lostKeys \subseteq Key /\ stray \subseteq Key
  /\ keyEvents \in 0..MaxKeyEvents

KeysInit ==
  /\ key = [k \in Key |-> Absent]
  /\ values = [l \in KeyLocation |-> <<>>]
  /\ provisioner = [p \in Provisioner |-> Resting]
  /\ edited = {} /\ lostKeys = {} /\ stray = {} /\ keyEvents = 0

KeyEvent == keyEvents < MaxKeyEvents /\ keyEvents' = keyEvents + 1
RevokedIn(keys, k) == [keys EXCEPT ![k] = [@ EXCEPT !.state = "revoked"]]
ProvisionerGoes(p, to) == provisioner' = [provisioner EXCEPT ![p] = to]

-----------------------------------------------------------------------------
(* On connect and on sign-in, any number at once.                          *)
Provision(p, l) ==
  /\ provisioner[p].at = "idle" /\ KeyEvent
  /\ ProvisionerGoes(p, [at |-> "reading", location |-> l])
  /\ UNCHANGED <<key, values, edited, lostKeys, stray>>

ReadValues(p) ==
  LET l == provisioner[p].location IN
  /\ provisioner[p].at = "reading"
  /\ ProvisionerGoes(p, [at |-> "checking", location |-> l, current |-> Published(l)])
  /\ UNCHANGED <<key, values, edited, lostKeys, stray, keyEvents>>

Opens(k, l) == Active(k) /\ key[k].at = l

CheckUrl(p) ==
  LET q == provisioner[p]
      fits == Opens(q.current, q.location)
  IN
  /\ q.at = "checking"
  /\ ProvisionerGoes(p, IF fits THEN Resting
       ELSE [at |-> "issuing", location |-> q.location, current |-> q.current])
  /\ edited' = IF fits /\ Published(q.location) = q.current
               THEN edited \ {q.location} ELSE edited
  /\ UNCHANGED <<key, values, lostKeys, stray, keyEvents>>

IssueKey(p, k) ==
  LET q == provisioner[p] IN
  /\ q.at = "issuing" /\ key[k] = Absent
  /\ key' = [key EXCEPT ![k] =
       [state |-> "active", at |-> q.location, byHand |-> FALSE]]
  /\ ProvisionerGoes(p, [at |-> "publishing", location |-> q.location,
              current |-> q.current, key |-> k])
  /\ UNCHANGED <<values, edited, lostKeys, stray, keyEvents>>

(* The value that was read is replaced; without one, another is created.   *)
Rewritten(p) ==
  LET q == provisioner[p] IN
  IF q.current = NoKey THEN Append(values[q.location], q.key)
  ELSE <<q.key>> \o Tail(values[q.location])

(* Keys that the publication pushes out, or that are not the first: then   *)
(* the value is not the one this provisioning has read.                    *)
Displaced(p) ==
  LET q == provisioner[p] IN
  IF Published(q.location) = q.current THEN {}
  ELSE IF q.current = NoKey THEN {q.key} ELSE {Published(q.location)}

PublishUrl(p) ==
  LET q == provisioner[p] IN
  /\ q.at = "publishing"
  /\ values' = [values EXCEPT ![q.location] = Rewritten(p)]
  /\ edited' = IF Head(Rewritten(p)) = q.key THEN edited \ {q.location} ELSE edited
  /\ stray' = stray \union Displaced(p)
  /\ ProvisionerGoes(p, [at |-> "revoking", current |-> q.current])
  /\ UNCHANGED <<key, lostKeys, keyEvents>>

FailedRevokes(k) == RevokedIn(key, k)

(* GoHighLevel refuses, or its answer is lost after it wrote the value:    *)
(* the key is revoked in both cases.                                       *)
PublishFails(p, wrote) ==
  LET q == provisioner[p] IN
  /\ q.at = "publishing" /\ KeyEvent
  /\ key' = FailedRevokes(q.key)
  /\ IF wrote
     THEN /\ values' = [values EXCEPT ![q.location] = Rewritten(p)]
          /\ stray' = stray \union Displaced(p)
          /\ lostKeys' = lostKeys \union {q.key}
     ELSE UNCHANGED <<values, stray, lostKeys>>
  /\ ProvisionerGoes(p, Resting)
  /\ UNCHANGED edited

(* revokeKeyFromUrl: the old value's key, when it is still valid for the   *)
(* purpose - which it is when it opens the dashboard of another location.  *)
RevokeOld(p) ==
  LET k == provisioner[p].current IN
  /\ provisioner[p].at = "revoking"
  /\ key' = IF Active(k) THEN RevokedIn(key, k) ELSE key
  /\ lostKeys' = IF Active(k) THEN lostKeys \union {k} ELSE lostKeys
  /\ ProvisionerGoes(p, Resting)
  /\ UNCHANGED <<values, edited, stray, keyEvents>>

ProvisionDies(p) ==
  LET q == provisioner[p] IN
  /\ q.at # "idle" /\ KeyEvent
  /\ stray' = IF q.at = "publishing" THEN stray \union {q.key} ELSE stray
  /\ ProvisionerGoes(p, Resting)
  /\ UNCHANGED <<key, values, edited, lostKeys>>

-----------------------------------------------------------------------------
CreateByHand(k, l) ==
  /\ key[k] = Absent /\ KeyEvent
  /\ key' = [key EXCEPT ![k] = [state |-> "active", at |-> l, byHand |-> TRUE]]
  /\ UNCHANGED <<values, provisioner, edited, lostKeys, stray>>

RevokeByHand(k) ==
  /\ Active(k) /\ KeyEvent
  /\ key' = RevokedIn(key, k)
  /\ lostKeys' = lostKeys \union {k}
  /\ UNCHANGED <<values, provisioner, edited, stray>>

(* A user pastes an url into a location, or clones one with its values.    *)
PasteUrl(l, k) ==
  /\ key[k] # Absent /\ k \notin InHand /\ KeyEvent
  /\ values' = [values EXCEPT ![l] = IF @ = <<>> THEN <<k>> ELSE <<k>> \o Tail(@)]
  /\ stray' = stray \union ({Published(l)} \ {NoKey})
  /\ edited' = edited \union {l}
  /\ UNCHANGED <<key, provisioner, lostKeys>>

ProvisionStep(p) ==
  \/ ReadValues(p) \/ CheckUrl(p) \/ (\E k \in Key : IssueKey(p, k))
  \/ PublishUrl(p) \/ RevokeOld(p)
  \/ \E wrote \in BOOLEAN : PublishFails(p, wrote)
  \/ ProvisionDies(p)

KeysNext ==
  \/ \E p \in Provisioner :
       (\E l \in KeyLocation : Provision(p, l)) \/ ProvisionStep(p)
  \/ \E k \in Key :
       \/ RevokeByHand(k)
       \/ \E l \in KeyLocation : CreateByHand(k, l) \/ PasteUrl(l, k)

KeysSpec == KeysInit /\ [][KeysNext]_keyVars

-----------------------------------------------------------------------------
(* The url in a location opens the dashboard of that location, unless a    *)
(* user wrote it since, or its key was lost: revoked by a user, by a       *)
(* publication whose answer was lost, or because it had been copied into   *)
(* another location, which was then provisioned.                           *)
PublishedIsLive ==
  \A l \in KeyLocation \ edited :
    LET k == Published(l) IN
    k \in {NoKey} \union lostKeys \/ (Active(k) /\ key[k].at = l)

(* Every valid key that a provisioning issued is the published one of its  *)
(* location or about to be - unless its provisioning died, or another or a *)
(* user wrote the value in between.                                        *)
KeysAccounted ==
  \A k \in Key : Active(k) /\ ~ key[k].byHand =>
    k \in stray \union InHand \/ Published(key[k].at) = k
=============================================================================
