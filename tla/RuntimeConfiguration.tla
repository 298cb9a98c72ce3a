------------------------- MODULE RuntimeConfiguration -------------------------
(***************************************************************************)
(* The connections an administrator sets at run time                       *)
(* (core/runtime_config.py, api/routes/configuration.py), the file they    *)
(* are kept in, and the settings every request and worker makes of them    *)
(* and of the environment (core/config.py).                                *)
(*                                                                         *)
(* Answers never show a secret, and an empty one in an update keeps the    *)
(* stored one; so a secret must not survive a change of the place it is    *)
(* sent to.  Here a secret is the place and the user it was entered for.   *)
(* One secret stands for those of a group (password and pid, cookie and    *)
(* passkey), which are kept and dropped alike; the TMDB token has no       *)
(* identity and is left out.                                               *)
(*                                                                         *)
(* A save holds a lock of the process from reading the file to replacing   *)
(* it by rename; a failing save leaves the old file or the new one.  An    *)
(* update of several groups is the updates of one after another.           *)
(***************************************************************************)
EXTENDS Naturals

CONSTANTS
  Places,    \* addresses with https
  Insecure,  \* addresses with http
  Users,     \* user names; for a NexusPHP site, its site_id
  EnvPlace,  \* the addresses and users the environment gives
  EnvUser,
  None,      \* a value that is not there
  Blank      \* an empty one

Groups == {"nextfind", "qbittorrent", "avistaz", "nexusphp"}
Sites  == {"avistaz", "nexusphp"}

ASSUME PlacesAssumption == /\ EnvPlace \notin Insecure /\ Places \cap Insecure = {}
                           /\ {None, Blank} \cap (Places \cup Insecure \cup {EnvPlace}) = {}
ASSUME UsersAssumption == None /= Blank /\ {None, Blank} \cap (Users \cup {EnvUser}) = {}
ASSUME NoneAssumption == None \notin Sites

VARIABLES
  file,        \* the file: version 0 before there is one
  environment  \* groups with credentials in the environment

configVars == <<file, environment>>

----------------------------------------------------------------------------
AnyPlace == Places \cup Insecure \cup {EnvPlace, None, Blank}
AnyUser  == Users \cup {EnvUser, None, Blank}
Secret   == [place : AnyPlace, user : AnyUser] \cup {None}
Group    == [place : AnyPlace, user : AnyUser, secret : Secret]
Unset   == [place |-> None, user |-> None, secret |-> None]

\* The file, and the environment, keep their types.
ConfigTypeOK ==
  /\ file \in [version : 0..2, groups : [Groups -> Group],
               active : Sites \cup {None}, http : BOOLEAN]
  /\ environment \subseteq {"nextfind", "qbittorrent", "avistaz"}

EmptyFile(version) == [version |-> version, groups |-> [g \in Groups |-> Unset],
                       active |-> None, http |-> FALSE]

\* NextFind and AvistaZ have an address whatever the environment is.
EnvPlaceOf(g) == IF g = "qbittorrent" /\ g \notin environment THEN None ELSE EnvPlace
EnvGroup(g) ==
  IF g \in environment
  THEN [place |-> EnvPlace, user |-> EnvUser, secret |-> [place |-> EnvPlace, user |-> EnvUser]]
  ELSE [Unset EXCEPT !.place = EnvPlaceOf(g)]

\* A secret goes to the address in the group, or to the environment's.
Where(g, place) == IF place = None THEN EnvPlaceOf(g) ELSE place
Entered(g, place, user) == [place |-> Where(g, place), user |-> user]

\* No file yet, or one an earlier release wrote: it had no address for the two.
V1Group(g) == [place : {None}, user : Users,
               secret : {None} \cup {Entered(g, None, u) : u \in Users}]
V1File(nextfind, avistaz) == [EmptyFile(1) EXCEPT !.groups["nextfind"] = nextfind,
                                                  !.groups["avistaz"] = avistaz]
ConfigInit ==
  /\ environment \in SUBSET {"nextfind", "qbittorrent", "avistaz"}
  /\ \/ file = EmptyFile(0)
     \/ \E nextfind \in V1Group("nextfind") \cup {Unset},
           avistaz  \in V1Group("avistaz") \cup {Unset} :
          /\ \A c \in {nextfind, avistaz} : c.secret /= None => c.secret.user = c.user
          /\ file = V1File(nextfind, avistaz)

----------------------------------------------------------------------------
\* Reading: configuration, _configuration_from_payload.

\* _validate_qb_url.
QbAllowed(place, http) == place \in Insecure => http

Readable(f) ==
  /\ QbAllowed(f.groups["qbittorrent"].place, f.http)
  /\ f.active /= None => f.groups[f.active] /= Unset
  /\ \A g \in Sites : f.groups[g] /= Unset => f.groups[g].place \in Places \cup {EnvPlace}

\* A file of the earlier release takes its addresses from the environment.
FromV1(f) ==
  [f EXCEPT !.groups = [g \in Groups |->
              IF g = "nextfind" \/ (g = "avistaz" /\ f.groups[g] /= Unset)
              THEN [f.groups[g] EXCEPT !.place = Where(g, @)] ELSE f.groups[g]],
            !.active = IF f.groups["avistaz"] = Unset THEN None ELSE "avistaz"]

Stored == IF file.version = 1 THEN FromV1(file) ELSE file
StoredGroup(g) == Stored.groups[g]

----------------------------------------------------------------------------
\* Saving: _merge_configuration, _merge_pt_sites.

\* Mutant of Kept: a new address keeps the secret.
KeptForUser(g, place, user) ==
  IF user = StoredGroup(g).user THEN StoredGroup(g).secret ELSE None

\* _optional_secret_update with no new secret.
Kept(g, place, user) ==
  IF place = StoredGroup(g).place /\ user = StoredGroup(g).user
  THEN StoredGroup(g).secret ELSE None

Written(g, place, user, secret, active, http) ==
  file' = [version |-> 2,
           groups  |-> [Stored.groups EXCEPT ![g] =
                          [place |-> place, user |-> user, secret |-> secret]],
           active  |-> active, http |-> http]

Secrets(g, place, user) == {Kept(g, place, user), Entered(g, place, user)}

\* What the addresses may be left at or changed to.
NextFindPlaces == {StoredGroup("nextfind").place} \cup Places
UsersFor(g) == {StoredGroup(g).user, Blank} \cup Users
\* Mutant of QbPlaces: an address that is not in the update is not looked at.
QbPlacesUpdated(http) == {StoredGroup("qbittorrent").place, Blank}
  \cup {p \in Places \cup Insecure : QbAllowed(p, http)}
QbPlaces(http) == {p \in {StoredGroup("qbittorrent").place, Blank} \cup Places \cup Insecure :
                     QbAllowed(p, http)}

SaveNextFind ==
  \E place \in NextFindPlaces, user \in UsersFor("nextfind") :
    \E secret \in Secrets("nextfind", place, user) :
      Written("nextfind", place, user, secret, Stored.active, Stored.http)

SaveQb ==
  \E http \in BOOLEAN : \E place \in QbPlaces(http), user \in UsersFor("qbittorrent") :
    \E secret \in Secrets("qbittorrent", place, user) :
      Written("qbittorrent", place, user, secret, Stored.active, http)

\* The site becomes the active one; the other is kept as it is.
SaveSite ==
  \E g \in Sites, place \in Places, user \in Users :
    \E secret \in Secrets(g, place, user) :
      Written(g, place, user, secret, g, Stored.http)

ConfigNext == /\ SaveNextFind \/ SaveQb \/ SaveSite
              /\ UNCHANGED environment

ConfigSpec == ConfigInit /\ [][ConfigNext]_configVars

----------------------------------------------------------------------------
\* What the program uses: settings_overrides, apply_runtime_configuration.

HasIdentity(c) == c.place /= None \/ c.user /= None

Effective(g) ==
  CASE g \in {"nextfind", "qbittorrent"} ->
         IF HasIdentity(StoredGroup(g))
         THEN [StoredGroup(g) EXCEPT !.place = Where(g, @)] ELSE EnvGroup(g)
    [] g = "avistaz" ->
         CASE Stored.active = None      -> EnvGroup(g)
           [] Stored.active = "avistaz" -> StoredGroup(g)
           [] OTHER                     -> [Unset EXCEPT !.place = EnvPlace]
    [] OTHER -> StoredGroup(g)

Usable(c) == c.place \notin {None, Blank} /\ c.user \notin {None, Blank} /\ c.secret /= None

\* Mutant of SiteConfigured: any site will do.
AnySiteConfigured == \E g \in Sites : Usable(StoredGroup(g)) \/ Usable(EnvGroup("avistaz"))
\* RuntimePtSite.configured of the site in use; _effective_values.
SiteConfigured ==
  IF Stored.active = None THEN Usable(EnvGroup("avistaz")) ELSE Usable(StoredGroup(Stored.active))

\* configuration_complete; unlike the settings it does not give a qBittorrent
\* user without an address the environment's address.
Complete ==
  /\ Usable(Effective("nextfind"))
  /\ SiteConfigured
  /\ Usable(IF HasIdentity(StoredGroup("qbittorrent")) THEN StoredGroup("qbittorrent")
            ELSE EnvGroup("qbittorrent"))

----------------------------------------------------------------------------
\* A secret is only ever kept with, and sent to, the address and the user it
\* was entered for, whichever updates, switches of the site and old files came
\* in between (_merge_configuration, settings_overrides).
SecretsStayPut == \A g \in Groups :
  /\ StoredGroup(g).secret \in {None, Entered(g, StoredGroup(g).place, StoredGroup(g).user)}
  /\ Effective(g).secret \in {None, [place |-> Effective(g).place, user |-> Effective(g).user]}

\* What a save accepts can be read again: an unreadable file would make every
\* later request and save fail (configuration raises RuntimeConfigError).
FileStaysReadable == file.version > 0 => Readable(Stored)

\* A configuration that is said to be complete has credentials for everything
\* the program connects to (configuration_complete, settings_overrides).
CompleteIsUsable ==
  Complete => /\ Usable(Effective("nextfind")) /\ Usable(Effective("qbittorrent"))
              /\ Usable(Effective(IF Stored.active = None THEN "avistaz" ELSE Stored.active))
===============================================================================
