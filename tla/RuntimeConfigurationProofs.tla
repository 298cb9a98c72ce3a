---------------------- MODULE RuntimeConfigurationProofs ----------------------
(***************************************************************************)
(* What RuntimeConfiguration promises for any addresses, users and         *)
(* environment.                                                            *)
(*                                                                         *)
(* All is said of Stored, the file as it is read, so that a file of the    *)
(* earlier release is an initial state like any other.  The three          *)
(* properties rest on each other: a secret that is used without an         *)
(* address would go to the environment's, and it is the readability of the *)
(* file that excludes this for the sites.                                  *)
(***************************************************************************)
EXTENDS RuntimeConfiguration, TLAPS

USE DEF Groups, Sites

\* A group with the secret that was entered for its address and user.
SafeGroup(g, c) ==
  c \in Group /\ c.secret \in {None, Entered(g, c.place, c.user)}

\* The file as it is read.
ConfigInv ==
  /\ ConfigTypeOK
  /\ Stored.active \in Sites \cup {None}
  /\ Stored.http \in BOOLEAN
  /\ Stored.groups \in [Groups -> Group]
  /\ \A g \in Groups : SafeGroup(g, StoredGroup(g))
  /\ Readable(Stored)

----------------------------------------------------------------------------
\* An address that is not there is the environment's.
LEMMA WhereIsAPlace ==
  ASSUME NEW g \in Groups, NEW place \in AnyPlace
  PROVE  Where(g, place) \in AnyPlace
BY DEF Where, EnvPlaceOf, AnyPlace

LEMMA UnsetIsAGroup == Unset \in Group
BY DEF Unset, Group, AnyPlace, AnyUser, Secret

LEMMA EnteredIsASecret ==
  ASSUME NEW g \in Groups, NEW place \in AnyPlace, NEW user \in AnyUser
  PROVE  Entered(g, place, user) \in Secret
BY WhereIsAPlace DEF Entered, Secret

\* A file of the earlier release has no address, so what it keeps goes to the
\* environment's.
LEMMA FirstReleaseIsSafe ==
  ASSUME NEW g \in {"nextfind", "avistaz"}, NEW c \in V1Group(g),
         c.secret # None => c.secret.user = c.user
  PROVE  /\ c.place = None /\ c \in Group
         /\ [c EXCEPT !.place = Where(g, @)] \in Group
         /\ [c EXCEPT !.place = Where(g, @)].place = EnvPlace
         /\ SafeGroup(g, [c EXCEPT !.place = Where(g, @)])
<1>1. /\ c.place = None /\ c.user \in Users
      /\ c = [place |-> c.place, user |-> c.user, secret |-> c.secret]
      /\ c.secret \in {None} \cup {Entered(g, None, u) : u \in Users}
  BY DEF V1Group
<1>2. Where(g, None) = EnvPlace BY DEF Where, EnvPlaceOf
<1>3. EnvPlace # None BY PlacesAssumption
<1>4. Where(g, EnvPlace) = EnvPlace BY <1>3 DEF Where
<1>5. c.secret \in {None, Entered(g, EnvPlace, c.user)}
  <2>1. CASE c.secret = None BY <2>1
  <2>2. CASE c.secret # None
    <3>1. PICK u \in Users : c.secret = Entered(g, None, u) BY <1>1, <2>2
    <3>2. c.secret = [place |-> EnvPlace, user |-> u] BY <3>1, <1>2 DEF Entered
    <3>3. u = c.user BY <3>2, <2>2
    <3> QED BY <3>2, <3>3, <1>4 DEF Entered
  <2> QED BY <2>1, <2>2
<1>6. c.secret \in Secret
  BY <1>1, <1>5, EnteredIsASecret DEF AnyPlace, AnyUser, Secret
<1>7. c \in Group BY <1>1, <1>6 DEF Group, AnyPlace, AnyUser
<1> DEFINE d == [c EXCEPT !.place = Where(g, @)]
<1>8. d = [place |-> EnvPlace, user |-> c.user, secret |-> c.secret] BY <1>1, <1>2
<1>9. d \in Group BY <1>1, <1>6, <1>8 DEF Group, AnyPlace, AnyUser
<1>10. SafeGroup(g, d) BY <1>5, <1>8, <1>9 DEF SafeGroup
<1> QED BY <1>1, <1>7, <1>8, <1>9, <1>10

LEMMA ConfigInitially == ConfigInit => ConfigInv
<1> SUFFICES ASSUME ConfigInit PROVE ConfigInv OBVIOUS
<1>1. environment \subseteq {"nextfind", "qbittorrent", "avistaz"} BY DEF ConfigInit
<1> USE DEF ConfigTypeOK
<1>2. CASE file = EmptyFile(0)
  <2>1. Stored = EmptyFile(0) BY <1>2 DEF Stored, EmptyFile
  <2>2. /\ Stored.active = None /\ Stored.http = FALSE
        /\ Stored.groups = [g \in Groups |-> Unset]
    BY <2>1 DEF EmptyFile
  <2>3. \A g \in Groups : StoredGroup(g) = Unset BY <2>2 DEF StoredGroup
  <2>4. Readable(Stored)
    BY <2>2, PlacesAssumption DEF Readable, QbAllowed, Unset
  <2>5. \A g \in Groups : SafeGroup(g, Unset) BY UnsetIsAGroup DEF SafeGroup, Unset
  <2>6. Stored.groups \in [Groups -> Group] BY <2>2, UnsetIsAGroup
  <2>7. ConfigTypeOK BY <1>1, <1>2, UnsetIsAGroup DEF EmptyFile
  <2> QED BY <2>2, <2>3, <2>4, <2>5, <2>6, <2>7 DEF ConfigInv
<1>3. CASE \E nextfind \in V1Group("nextfind") \cup {Unset},
              avistaz  \in V1Group("avistaz") \cup {Unset} :
             /\ \A c \in {nextfind, avistaz} : c.secret # None => c.secret.user = c.user
             /\ file = V1File(nextfind, avistaz)
  <2>1. PICK nextfind \in V1Group("nextfind") \cup {Unset},
             avistaz  \in V1Group("avistaz") \cup {Unset} :
             /\ \A c \in {nextfind, avistaz} : c.secret # None => c.secret.user = c.user
             /\ file = V1File(nextfind, avistaz)
    BY <1>3
  <2> DEFINE n == [nextfind EXCEPT !.place = Where("nextfind", @)]
             a == IF avistaz = Unset THEN Unset
                  ELSE [avistaz EXCEPT !.place = Where("avistaz", @)]
  <2>2. /\ file.version = 1 /\ file.http = FALSE
        /\ file = [version |-> 1, groups |-> file.groups, active |-> None, http |-> FALSE]
        /\ file.groups = [g \in Groups |->
             CASE g = "nextfind" -> nextfind [] g = "avistaz" -> avistaz [] OTHER -> Unset]
    BY <2>1 DEF V1File, EmptyFile
  <2>3. Stored = FromV1(file) BY <2>2 DEF Stored
  <2>4. /\ Stored.active = IF avistaz = Unset THEN None ELSE "avistaz"
        /\ Stored.http = FALSE
        /\ Stored.groups = [g \in Groups |->
              IF g = "nextfind" \/ (g = "avistaz" /\ file.groups[g] # Unset)
              THEN [file.groups[g] EXCEPT !.place = Where(g, @)] ELSE file.groups[g]]
    BY <2>2, <2>3 DEF FromV1
  <2>5. /\ StoredGroup("nextfind") = n /\ StoredGroup("avistaz") = a
        /\ StoredGroup("qbittorrent") = Unset /\ StoredGroup("nexusphp") = Unset
    BY <2>2, <2>4 DEF StoredGroup
  <2>6. SafeGroup("nextfind", n)
    <3>1. CASE nextfind \in V1Group("nextfind") BY <3>1, <2>1, FirstReleaseIsSafe
    <3>2. CASE nextfind = Unset
      <4>1. n = [place |-> EnvPlace, user |-> None, secret |-> None]
        BY <3>2 DEF Unset, Where, EnvPlaceOf
      <4> QED BY <4>1 DEF SafeGroup, Group, AnyPlace, AnyUser, Secret
    <3> QED BY <3>1, <3>2
  <2>7. SafeGroup("avistaz", a) /\ (a # Unset => a.place = EnvPlace)
    <3>1. CASE avistaz # Unset BY <3>1, <2>1, FirstReleaseIsSafe
    <3>2. CASE avistaz = Unset BY <3>2, UnsetIsAGroup DEF SafeGroup, Unset
    <3> QED BY <3>1, <3>2
  <2>8. SafeGroup("qbittorrent", Unset) /\ SafeGroup("nexusphp", Unset)
    BY UnsetIsAGroup DEF SafeGroup, Unset
  <2>9. \A g \in Groups : SafeGroup(g, StoredGroup(g)) BY <2>5, <2>6, <2>7, <2>8
  <2>10. Stored.groups \in [Groups -> Group]
    <3>1. \A g \in Groups : Stored.groups[g] \in Group
      BY <2>9 DEF SafeGroup, StoredGroup
    <3> QED BY <3>1, <2>4
  <2>11. Stored.active # None => a # Unset
    <3>1. ASSUME avistaz # Unset PROVE a # Unset
      <4>1. a.place = EnvPlace /\ EnvPlace # None
        BY <3>1, <2>1, FirstReleaseIsSafe, PlacesAssumption
      <4> QED BY <4>1 DEF Unset
    <3> QED BY <2>4, <3>1
  <2>12. Readable(Stored)
    <3>1. QbAllowed(Stored.groups["qbittorrent"].place, Stored.http)
      BY <2>5, PlacesAssumption DEF QbAllowed, Unset, StoredGroup
    <3>2. Stored.active # None => Stored.groups[Stored.active] # Unset
      BY <2>4, <2>5, <2>11 DEF StoredGroup
    <3> QED BY <3>1, <3>2, <2>5, <2>7 DEF Readable, StoredGroup
  <2>13. ConfigTypeOK
    <3>1. nextfind \in Group /\ avistaz \in Group
      BY <2>1, FirstReleaseIsSafe, UnsetIsAGroup
    <3>2. \A g \in Groups : file.groups[g] \in {nextfind, avistaz, Unset} BY <2>2
    <3>3. {nextfind, avistaz, Unset} \subseteq Group BY <3>1, UnsetIsAGroup
    <3> DEFINE h == file.groups
    <3>4. /\ h = [g \in Groups |-> h[g]] /\ \A g \in Groups : h[g] \in Group
          /\ file = [version |-> 1, groups |-> h, active |-> None, http |-> FALSE]
      BY <2>2, <3>2, <3>3
    <3> HIDE DEF h
    <3>5. h \in [Groups -> Group] BY <3>4
    <3>6. file \in [version : 0..2, groups : [Groups -> Group],
                    active : Sites \cup {None}, http : BOOLEAN]
      BY <3>4, <3>5
    <3> QED BY <1>1, <3>6
  <2> QED BY <2>4, <2>9, <2>10, <2>12, <2>13 DEF ConfigInv
<1> QED BY <1>2, <1>3 DEF ConfigInit

----------------------------------------------------------------------------
\* What a save keeps or enters belongs to the address and user it writes.
LEMMA SecretsFit ==
  ASSUME ConfigInv, NEW g \in Groups, NEW place \in AnyPlace, NEW user \in AnyUser,
         NEW secret \in Secrets(g, place, user)
  PROVE  /\ secret \in {None, Entered(g, place, user)}
         /\ [place |-> place, user |-> user, secret |-> secret] \in Group
<1>1. SafeGroup(g, StoredGroup(g)) BY DEF ConfigInv
<1>2. secret \in {None, Entered(g, place, user)}
  BY <1>1 DEF Secrets, Kept, SafeGroup
<1>3. secret \in Secret BY <1>2, EnteredIsASecret DEF Secret
<1> QED BY <1>2, <1>3 DEF Group

\* One written group keeps the invariant, if it can be read again.
LEMMA WriteIsSafe ==
  ASSUME ConfigInv, NEW g \in Groups, NEW place \in AnyPlace, NEW user \in AnyUser,
         NEW secret \in Secrets(g, place, user), NEW active \in Sites \cup {None},
         NEW http \in BOOLEAN, Written(g, place, user, secret, active, http),
         UNCHANGED environment,
         active # None => (active = g /\ place \in Places) \/ active = Stored.active,
         g \in Sites => place \in Places \cup {EnvPlace},
         QbAllowed(IF g = "qbittorrent" THEN place ELSE StoredGroup("qbittorrent").place, http)
  PROVE  ConfigInv'
<1> DEFINE c == [place |-> place, user |-> user, secret |-> secret]
<1>1. c \in Group /\ secret \in {None, Entered(g, place, user)} BY SecretsFit
<1>2. Stored' = file' BY DEF Stored, Written
<1>3. Stored.groups \in [Groups -> Group] BY DEF ConfigInv
<1>4. /\ Stored'.active = active /\ Stored'.http = http
      /\ Stored'.groups = [Stored.groups EXCEPT ![g] = c]
  BY <1>2 DEF Written
<1>5. Stored'.groups \in [Groups -> Group] BY <1>1, <1>3, <1>4
<1>6. \A k \in Groups : StoredGroup(k)' = IF k = g THEN c ELSE StoredGroup(k)
  BY <1>3, <1>4 DEF StoredGroup
<1>7. \A k \in Groups : \A p, u : Entered(k, p, u)' = Entered(k, p, u)
  BY DEF Entered, Where, EnvPlaceOf
<1>8. ASSUME NEW k \in Groups PROVE SafeGroup(k, StoredGroup(k))'
  <2>1. SafeGroup(k, StoredGroup(k)) BY DEF ConfigInv
  <2> QED BY <1>1, <1>6, <1>7, <2>1 DEF SafeGroup
<1>9. Readable(Stored)'
  <2>1. QbAllowed(Stored'.groups["qbittorrent"].place, Stored'.http)
    BY <1>3, <1>4 DEF QbAllowed, StoredGroup
  <2>2. ASSUME active # None PROVE Stored'.groups[active] # Unset
    <3>1. CASE active = g /\ place \in Places
      <4>1. Stored'.groups[active] = c /\ place # None
        BY <3>1, <1>3, <1>4, PlacesAssumption
      <4> QED BY <4>1 DEF Unset
    <3>2. CASE active = Stored.active /\ active # g
      <4>1. Stored.groups[active] # Unset BY <2>2, <3>2 DEF ConfigInv, Readable
      <4> QED BY <4>1, <3>2, <2>2, <1>3, <1>4
    <3>3. CASE active = g /\ g \in Sites
      <4>1. Stored'.groups[active] = c /\ place # None
        BY <3>3, <1>3, <1>4, PlacesAssumption
      <4> QED BY <4>1 DEF Unset
    <3> QED BY <3>1, <3>2, <3>3, <2>2
  <2>3. ASSUME NEW k \in Sites, Stored'.groups[k] # Unset
        PROVE  Stored'.groups[k].place \in Places \cup {EnvPlace}
    <3>1. CASE k = g BY <3>1, <1>3, <1>4
    <3>2. CASE k # g
      <4>1. Stored'.groups[k] = Stored.groups[k] BY <3>2, <1>3, <1>4
      <4> QED BY <4>1, <2>3 DEF ConfigInv, Readable
    <3> QED BY <3>1, <3>2
  <2> QED BY <1>4, <2>1, <2>2, <2>3 DEF Readable, QbAllowed
<1>10. ConfigTypeOK'
  <2>1. file' = [version |-> 2, groups |-> Stored'.groups, active |-> active, http |-> http]
    BY <1>4 DEF Written
  <2>2. environment \subseteq {"nextfind", "qbittorrent", "avistaz"}
    BY DEF ConfigInv, ConfigTypeOK
  <2> QED BY <2>1, <2>2, <1>5 DEF ConfigTypeOK
<1> QED BY <1>4, <1>5, <1>8, <1>9, <1>10 DEF ConfigInv

\* The addresses and users that a save may write.
LEMMA ValuesAreTyped ==
  ASSUME ConfigInv, NEW g \in Groups
  PROVE  /\ StoredGroup(g).place \in AnyPlace
         /\ UsersFor(g) \subseteq AnyUser
         /\ NextFindPlaces \subseteq AnyPlace
         /\ Places \cup Insecure \cup {Blank} \subseteq AnyPlace
<1>1. \A k \in Groups : StoredGroup(k).place \in AnyPlace /\ StoredGroup(k).user \in AnyUser
  BY DEF ConfigInv, SafeGroup, Group
<1> QED BY <1>1 DEF UsersFor, NextFindPlaces, AnyPlace, AnyUser

LEMMA ConfigStep == ConfigInv /\ [ConfigNext]_configVars => ConfigInv'
<1> SUFFICES ASSUME ConfigInv, [ConfigNext]_configVars PROVE ConfigInv' OBVIOUS
<1>1. CASE SaveNextFind /\ UNCHANGED environment
  <2>1. PICK place \in NextFindPlaces, user \in UsersFor("nextfind") :
          \E secret \in Secrets("nextfind", place, user) :
            Written("nextfind", place, user, secret, Stored.active, Stored.http)
    BY <1>1 DEF SaveNextFind
  <2>2. place \in AnyPlace /\ user \in AnyUser BY ValuesAreTyped
  <2>3. QbAllowed(StoredGroup("qbittorrent").place, Stored.http)
    BY DEF ConfigInv, Readable, StoredGroup
  <2>4. Stored.active \in Sites \cup {None} /\ Stored.http \in BOOLEAN BY DEF ConfigInv
  <2> QED BY <1>1, <2>1, <2>2, <2>3, <2>4, WriteIsSafe
<1>2. CASE SaveQb /\ UNCHANGED environment
  <2>1. PICK http \in BOOLEAN : \E place \in QbPlaces(http), user \in UsersFor("qbittorrent") :
          \E secret \in Secrets("qbittorrent", place, user) :
            Written("qbittorrent", place, user, secret, Stored.active, http)
    BY <1>2 DEF SaveQb
  <2>2. PICK place \in QbPlaces(http), user \in UsersFor("qbittorrent") :
          \E secret \in Secrets("qbittorrent", place, user) :
            Written("qbittorrent", place, user, secret, Stored.active, http)
    BY <2>1
  <2>3. place \in AnyPlace /\ user \in AnyUser BY ValuesAreTyped DEF QbPlaces
  <2>4. QbAllowed(place, http) BY DEF QbPlaces
  <2>5. Stored.active \in Sites \cup {None} BY DEF ConfigInv
  <2> QED BY <1>2, <2>2, <2>3, <2>4, <2>5, WriteIsSafe
<1>3. CASE SaveSite /\ UNCHANGED environment
  <2>1. PICK g \in Sites, place \in Places, user \in Users :
          \E secret \in Secrets(g, place, user) :
            Written(g, place, user, secret, g, Stored.http)
    BY <1>3 DEF SaveSite
  <2>2. place \in AnyPlace /\ user \in AnyUser BY DEF AnyPlace, AnyUser
  <2>3. QbAllowed(StoredGroup("qbittorrent").place, Stored.http)
    BY DEF ConfigInv, Readable, StoredGroup
  <2>4. Stored.http \in BOOLEAN /\ g \in Groups /\ g # "qbittorrent" BY DEF ConfigInv
  <2> QED BY <1>3, <2>1, <2>2, <2>3, <2>4, WriteIsSafe
<1>4. CASE UNCHANGED configVars
  BY <1>4 DEF configVars, ConfigInv, Stored, FromV1, StoredGroup, SafeGroup, Entered, Where,
    EnvPlaceOf, Readable, QbAllowed, ConfigTypeOK
<1> QED BY <1>1, <1>2, <1>3, <1>4 DEF ConfigNext

----------------------------------------------------------------------------
\* ConfigInv holds in every state.
THEOREM ConfigInvariance == ConfigSpec => []ConfigInv
BY ConfigInitially, ConfigStep, PTL DEF ConfigSpec

\* What a save accepts can be read again (configuration, _merge_configuration).
THEOREM StaysReadable == ConfigSpec => []FileStaysReadable
<1>1. ConfigInv => FileStaysReadable BY DEF ConfigInv, FileStaysReadable
<1> QED BY <1>1, ConfigInvariance, PTL

\* The group in use has an address if it has a secret.
LEMMA ActiveSiteHasPlace ==
  ASSUME ConfigInv, NEW g \in Sites, StoredGroup(g).secret # None
  PROVE  StoredGroup(g).place # None
<1>1. StoredGroup(g) # Unset BY DEF Unset
<1>2. StoredGroup(g).place \in Places \cup {EnvPlace}
  BY <1>1 DEF ConfigInv, Readable, StoredGroup
<1> QED BY <1>2, PlacesAssumption

\* A secret is kept with, and sent to, the address and user it was entered for
\* (_optional_secret_update, settings_overrides).
THEOREM SecretsAreSafe == ConfigSpec => []SecretsStayPut
<1>1. ASSUME ConfigInv, NEW g \in Groups
      PROVE  /\ StoredGroup(g).secret
                  \in {None, Entered(g, StoredGroup(g).place, StoredGroup(g).user)}
             /\ Effective(g).secret
                  \in {None, [place |-> Effective(g).place, user |-> Effective(g).user]}
  <2> DEFINE c == StoredGroup(g)
  <2>1. c \in Group /\ c.secret \in {None, Entered(g, c.place, c.user)}
    BY <1>1 DEF ConfigInv, SafeGroup
  <2>2. EnvGroup(g).secret \in {None, [place |-> EnvGroup(g).place, user |-> EnvGroup(g).user]}
    BY DEF EnvGroup, Unset
  <2>3. CASE g \in {"nextfind", "qbittorrent"}
    <3>1. CASE HasIdentity(c)
      <4>1. Effective(g) = [c EXCEPT !.place = Where(g, @)] BY <2>3, <3>1 DEF Effective
      <4>2. /\ Effective(g).secret = c.secret /\ Effective(g).user = c.user
            /\ Effective(g).place = Where(g, c.place)
        BY <4>1, <2>1 DEF Group
      <4> QED BY <4>2, <2>1 DEF Entered
    <3>2. CASE ~HasIdentity(c)
      <4>1. Effective(g) = EnvGroup(g) BY <2>3, <3>2 DEF Effective
      <4> QED BY <4>1, <2>1, <2>2
    <3> QED BY <3>1, <3>2
  <2>4. CASE g \in Sites
    <3>1. c.secret # None => c.place # None BY <1>1, <2>4, ActiveSiteHasPlace
    <3>2. c.secret \in {None, [place |-> c.place, user |-> c.user]}
      BY <2>1, <3>1 DEF Entered, Where
    <3>3. CASE g = "nexusphp"
      <4>1. Effective(g) = c BY <3>3 DEF Effective
      <4> QED BY <4>1, <2>1, <3>2
    <3>4. CASE g = "avistaz" /\ Stored.active = None
      <4>1. Effective(g) = EnvGroup(g) BY <3>4, NoneAssumption DEF Effective
      <4> QED BY <4>1, <2>1, <2>2
    <3>5. CASE g = "avistaz" /\ Stored.active = "avistaz"
      <4>1. Effective(g) = c BY <3>5, NoneAssumption DEF Effective
      <4> QED BY <4>1, <2>1, <3>2
    <3>6. CASE g = "avistaz" /\ Stored.active \notin {None, "avistaz"}
      <4>1. Effective(g) = [Unset EXCEPT !.place = EnvPlace] BY <3>6 DEF Effective
      <4>2. Effective(g).secret = None BY <4>1 DEF Unset
      <4> QED BY <4>2, <2>1
    <3> QED BY <2>4, <3>3, <3>4, <3>5, <3>6
  <2> QED BY <2>3, <2>4
<1>2. ConfigInv => SecretsStayPut BY <1>1 DEF SecretsStayPut
<1> QED BY <1>2, ConfigInvariance, PTL

\* What is said to be complete has what every connection needs
\* (configuration_complete).
THEOREM CompleteMeansUsable == ConfigSpec => []CompleteIsUsable
<1>1. ASSUME ConfigInv, Complete
      PROVE  /\ Usable(Effective("nextfind")) /\ Usable(Effective("qbittorrent"))
             /\ Usable(Effective(IF Stored.active = None THEN "avistaz" ELSE Stored.active))
  <2>1. Usable(Effective("nextfind")) BY <1>1 DEF Complete
  <2>2. Usable(Effective("qbittorrent"))
    <3> DEFINE c == StoredGroup("qbittorrent")
    <3>1. CASE HasIdentity(c)
      <4>1. Effective("qbittorrent") = [c EXCEPT !.place = Where("qbittorrent", @)]
        BY <3>1 DEF Effective
      <4>2. Usable(c) /\ c \in Group BY <1>1, <3>1 DEF Complete, ConfigInv, SafeGroup
      <4>3. Where("qbittorrent", c.place) = c.place BY <4>2 DEF Usable, Where
      <4>4. Effective("qbittorrent") = c BY <4>1, <4>2, <4>3 DEF Group
      <4> QED BY <4>2, <4>4
    <3>2. CASE ~HasIdentity(c)
      <4>1. Effective("qbittorrent") = EnvGroup("qbittorrent") BY <3>2 DEF Effective
      <4> QED BY <1>1, <3>2, <4>1 DEF Complete
    <3> QED BY <3>1, <3>2
  <2>3. Usable(Effective(IF Stored.active = None THEN "avistaz" ELSE Stored.active))
    <3>1. Stored.active \in Sites \cup {None} BY <1>1 DEF ConfigInv
    <3>2. SiteConfigured BY <1>1 DEF Complete
    <3>3. CASE Stored.active = None
      <4>1. Effective("avistaz") = EnvGroup("avistaz") BY <3>3, NoneAssumption DEF Effective
      <4> QED BY <3>2, <3>3, <4>1 DEF SiteConfigured
    <3>4. CASE Stored.active \in Sites
      <4>1. Effective(Stored.active) = StoredGroup(Stored.active)
        BY <3>4, NoneAssumption DEF Effective
      <4>2. Stored.active # None BY <3>4, NoneAssumption
      <4> QED BY <3>2, <4>1, <4>2 DEF SiteConfigured
    <3> QED BY <3>1, <3>3, <3>4
  <2> QED BY <2>1, <2>2, <2>3
<1>2. ConfigInv => CompleteIsUsable BY <1>1 DEF CompleteIsUsable
<1> QED BY <1>2, ConfigInvariance, PTL
===============================================================================
