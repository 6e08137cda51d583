------------------------------- MODULE Access -------------------------------
(***************************************************************************)
(* Whether the server may run and whom it answers: LicenseGuard with the   *)
(* ColdRoomManager, and SessionStore with the auth handlers.  The two share*)
(* no state.                                                               *)
(*                                                                         *)
(* The licence server is asked when the server starts and once a day; its  *)
(* last acceptance, in a file, serves for some days without it.  With the  *)
(* cold room, signed blobs with an expiry take its place.  Both files are  *)
(* encrypted with a hash of all the machine's signals.  A key is           *)
(* configured.  Days pass; the machine's clock may be set some days behind *)
(* or ahead of them, while the licence server dates its tokens rightly.    *)
(*                                                                         *)
(* A session is a signed cookie, of which the server keeps nothing but the *)
(* identifiers that were revoked, until it restarts.  Two handlers await   *)
(* the web site's answer.  Cookies are numbered; what role and plan they   *)
(* carry is left out, and the clock is right.  Refused tokens are          *)
(* ThreatLevel's.                                                          *)
(***************************************************************************)
EXTENDS Integers, FiniteSets, Sequences

CONSTANTS
  Signal,      \* signals of a machine: its serial numbers, names and addresses
  Blob,        \* signed cold-room blobs
  ExpiryOf,    \* their last day
  MachineOf,   \* the machine they are for
  Grace,       \* days the file serves
  Life,        \* days its token is valid
  Attempts,    \* requests before the licence server counts as out of reach
  None,
  MaxDay,
  Skews,       \* days the machine's clock may be ahead or, negative, behind
  Client,      \* clients with a request
  TokenLife,   \* days a session of a token, or of the cold room, is valid
  AccountLife, \* days one of a web account is
  MaxSessions, MaxToday

AccessConstants ==
    /\ MaxDay \in Nat /\ 0 \in Skews /\ Skews \subseteq Int
    /\ Grace \in Nat /\ Life \in Int /\ Attempts \in Nat \ {0}
    /\ ExpiryOf \in [Blob -> Int] /\ MachineOf \in [Blob -> SUBSET Signal]
    /\ MaxToday \in Nat /\ TokenLife \in Int /\ AccountLife \in Int
    /\ None \notin Nat \cup [blob : Blob, used : SUBSET Blob, machine : SUBSET Signal]

VARIABLES
  cold,      \* whether the cold room is enabled
  day,
  skew,      \* the days the machine's clock is ahead
  machine,   \* the signals that are not what they were at first
  network,   \* whether the licence server answers
  rejected,  \* whether it rejects the licence
  software,  \* version and hash of the guard's file
  cache,     \* .gimo_license, or None
  room,      \* .gimo_cold_room: the blob, and those whose nonce is remembered, or None
  server,    \* what the server does
  accepted,  \* when the licence server accepted: the days, and the clock's
  overdue,   \* days with network and a rejected licence, while the server ran
  today,
  key,       \* the configured tokens, of which the signing key is made
  sessions,  \* the cookies
  revoked,   \* the revocation set
  loggedOut, \* sessions logged out, under the server that is up
  call,      \* the requests that await the web site
  late       \* an answer was given for a session that did not hold

licenseVars ==
    <<cold, day, skew, machine, network, rejected, software, cache, room, server, accepted,
      overdue>>

\* The day the machine takes it to be.
Clock == day + skew

Down == [at |-> "down"]

Running == server.at \in {"up", "recheck"}

LicenseTypeOK ==
    /\ day \in 0 .. MaxDay /\ skew \in Skews
    /\ \A a \in accepted : a.day \in 0 .. day /\ a.clock - a.day \in Skews
    /\ server.at \in {"down", "asking", "limited", "up", "recheck"}
    /\ server.at \in {"asking", "recheck"} => server.attempt \in 1 .. Attempts
    /\ machine \subseteq Signal
    /\ cache = None \/ (cache.iat \in 0 .. day /\ cache.machine \subseteq Signal)
    /\ room = None \/ (room.blob \in room.used /\ room.used \subseteq Blob)

LicenseInit ==
    /\ cold \in BOOLEAN /\ day = 0 /\ skew = 0 /\ machine = {}
    /\ network \in BOOLEAN /\ rejected = FALSE
    /\ software = [version |-> 1, hash |-> 1]
    /\ cache = None /\ room = None /\ server = Down
    /\ accepted = {} /\ overdue = 0

World == <<cold, day, skew, machine, network, rejected, software>>

Up(plan) == [at |-> "up", plan |-> plan, since |-> Clock, next |-> day + 1]

----------------------------------------------------------------------------
(* Starting: the cold room, the guard's own file, the licence server, the  *)
(* file of its last acceptance.                                            *)

\* What a file holds, if it was written on a machine with the same signals.
Loaded(file) == IF file # None /\ file.machine = machine THEN file ELSE None

\* A file that is not read is none.
Cached == Loaded(cache)

\* compare_fingerprints: three signals of five.
SameMachine(m) ==
    LET changed == (m \ machine) \cup (machine \ m)
    IN  5 * Cardinality(Signal \ changed) >= 3 * Cardinality(Signal)

\* The same version with another hash.
Tampered == Cached # None /\ Cached.version = software.version /\ Cached.hash # software.hash

\* is_paired, and the blob's expiry.
Paired == Loaded(room)

Start ==
    /\ server = Down
    /\ server' = IF cold /\ Paired # None
                 THEN IF Clock <= ExpiryOf[Paired.blob] THEN Up("cold") ELSE [at |-> "limited"]
                 ELSE IF Tampered THEN Down ELSE [at |-> "asking", attempt |-> 1]
    /\ UNCHANGED <<World, cache, room, accepted, overdue>>

\* The token with the day it was issued, the day of the machine's clock, and what
\* the machine and the guard's file are.  The file may not be written.
SaveCache ==
    LET now == [day |-> day, clock |-> Clock]
    IN  \/ /\ cache' = [iat |-> day, last |-> Clock, version |-> software.version,
                        hash |-> software.hash, machine |-> machine]
           /\ accepted' = {now}
        \/ UNCHANGED cache /\ accepted' = accepted \cup {now}

Accept ==
    /\ server.at \in {"asking", "recheck"} /\ network /\ ~rejected
    /\ SaveCache
    /\ server' = IF server.at = "asking" THEN Up("online")
                 ELSE [Up("online") EXCEPT !.since = server.since]
    /\ overdue' = 0
    /\ UNCHANGED <<World, room>>

\* An explicit rejection is not repeated, and leaves the file.
Reject ==
    /\ server.at \in {"asking", "recheck"} /\ network /\ rejected
    /\ server' = Down /\ overdue' = 0
    /\ UNCHANGED <<World, cache, room, accepted>>

\* Were a clock before the token's day believed.
ValidOfflineAnyClock ==
    /\ Cached # None
    /\ Clock - Cached.iat <= Life
    /\ Clock - Cached.last <= Grace
    /\ SameMachine(Cached.machine)

\* What the file says is enough for the clock's day, which is not before the token's
\* (the decoder of tokens asks this too).
ValidOffline ==
    /\ Cached # None
    /\ Clock - Cached.iat <= Life
    /\ Clock >= Cached.iat
    /\ Clock - Cached.last <= Grace
    /\ SameMachine(Cached.machine)

\* A recheck that has no answer is skipped.
GiveUp ==
    /\ server.at \in {"asking", "recheck"} /\ ~network
    /\ server' = IF server.attempt < Attempts THEN [server EXCEPT !.attempt = @ + 1]
                 ELSE IF server.at = "recheck"
                 THEN [at |-> "up", plan |-> server.plan, since |-> server.since,
                       next |-> day + 1]
                 ELSE IF ValidOffline THEN Up("offline") ELSE Down
    /\ UNCHANGED <<World, cache, room, accepted, overdue>>

\* periodic_recheck does nothing where the cold room is enabled.
Recheck ==
    /\ server.at = "up" /\ server.next <= day
    /\ server' = IF cold THEN [server EXCEPT !.next = day + 1]
                 ELSE [at |-> "recheck", plan |-> server.plan, since |-> server.since,
                       attempt |-> 1]
    /\ UNCHANGED <<World, cache, room, accepted, overdue>>

Stop ==
    /\ server # Down /\ server' = Down /\ overdue' = 0
    /\ UNCHANGED <<World, cache, room, accepted>>

----------------------------------------------------------------------------
(* The cold room.  Activating and renewing are the same. *)

Remembered == IF Paired = None THEN {} ELSE Paired.used

\* A server in limited mode stays in it.  (When the state cannot be written the
\* answer is the same, and nothing changes.)
Activate(b) ==
    /\ cold /\ server.at \in {"up", "limited"}
    /\ MachineOf[b] = machine /\ Clock <= ExpiryOf[b] /\ b \notin Remembered
    /\ room' = [blob |-> b, used |-> Remembered \cup {b}, machine |-> machine]
    /\ UNCHANGED <<World, cache, server, accepted, overdue>>

----------------------------------------------------------------------------
(* The rest of the world. *)

Keep == UNCHANGED <<cold, cache, room, server, accepted>>

NetworkChanges ==
    /\ network' = ~network /\ overdue' = 0
    /\ UNCHANGED <<day, skew, machine, rejected, software>> /\ Keep

LicenceChanges ==
    /\ rejected' = ~rejected /\ overdue' = 0
    /\ UNCHANGED <<day, skew, machine, network, software>> /\ Keep

\* A part is replaced.
MachineChanges ==
    /\ server = Down
    /\ \E s \in Signal \ machine : machine' = machine \cup {s}
    /\ UNCHANGED <<day, skew, network, rejected, software, overdue>> /\ Keep

\* Another release, with or without another version.
Release ==
    /\ server = Down /\ software.hash = 1
    /\ \E bump \in {0, 1} : software' = [version |-> 1 + bump, hash |-> 2]
    /\ UNCHANGED <<day, skew, machine, network, rejected, overdue>> /\ Keep

\* The clock is set, back or forth.  The server sleeps no shorter and no longer for it.
ClockChanges ==
    /\ \E s \in Skews : s # skew /\ skew' = s
    /\ UNCHANGED <<day, machine, network, rejected, software, overdue>> /\ Keep

\* A day passes when nothing is due.
Pass ==
    /\ day < MaxDay /\ server.at \in {"down", "limited", "up"}
    /\ server.at = "up" => server.next > day
    /\ day' = day + 1
    /\ overdue' = IF Running /\ network /\ rejected THEN overdue + 1 ELSE 0
    /\ UNCHANGED <<skew, machine, network, rejected, software>> /\ Keep

LicenseNext ==
    \/ Start \/ Accept \/ Reject \/ GiveUp \/ Recheck \/ Stop
    \/ \E b \in Blob : Activate(b)
    \/ NetworkChanges \/ LicenceChanges \/ MachineChanges \/ Release \/ ClockChanges \/ Pass

LicenseSpec == LicenseInit /\ [][LicenseNext]_licenseVars

\* A server that runs was accepted by the licence server, or had a blob of that day.
\* One that started without the licence server's answer did so by a clock not before
\* a day it was accepted, and not more than the grace period after what the clock said
\* then, however the clock was set in between and whatever the last day left of the
\* file.  One that can reach the licence server runs no longer than a day with a
\* rejected licence, and limited mode is for machines that were paired.
RunningIsLicensed ==
    /\ Running /\ server.plan = "cold" =>
          \E b \in Blob : MachineOf[b] = machine /\ server.since <= ExpiryOf[b]
    /\ Running /\ server.plan = "online" => accepted # {}
    /\ Running /\ server.plan = "offline" =>
          \E a \in accepted : a.day <= server.since /\ server.since - a.clock <= Grace
    /\ ~cold => overdue <= 1
    /\ server.at = "limited" => Paired # None

----------------------------------------------------------------------------
(* Sessions. *)

sessionVars == <<today, key, sessions, revoked, loggedOut, call, late>>

Quiet == [pc |-> "none"]

SessionsTypeOK ==
    /\ today \in 0 .. MaxToday /\ key \in {1, 2} /\ late \in BOOLEAN
    /\ \A s \in DOMAIN sessions :
          /\ sessions[s].kind \in {"token", "account"} /\ sessions[s].key \in {1, 2}
          /\ sessions[s].iat \in 0 .. today
    /\ revoked \subseteq DOMAIN sessions /\ loggedOut \subseteq DOMAIN sessions
    /\ \A c \in Client : call[c].pc \in {"none", "login", "profile"}

SessionsInit ==
    /\ today = 0 /\ key = 1 /\ sessions = <<>> /\ revoked = {} /\ loggedOut = {}
    /\ call = [c \in Client |-> Quiet] /\ late = FALSE

SessionLife(s) == IF sessions[s].kind = "account" THEN AccountLife ELSE TokenLife

\* validate: the signature, the revocation set, the age.
Valid(s) ==
    /\ sessions[s].key = key
    /\ s \notin revoked
    /\ today - sessions[s].iat <= SessionLife(s)

Create(kind) ==
    /\ Len(sessions) < MaxSessions
    /\ sessions' = Append(sessions, [kind |-> kind, key |-> key, iat |-> today])

----------------------------------------------------------------------------
(* Handlers. *)

\* With a token, or while the cold room's blob is valid.
Login ==
    /\ Create("token")
    /\ UNCHANGED <<today, key, revoked, loggedOut, call, late>>

Revoke(s) ==
    /\ sessions[s].key = key
    /\ revoked' = revoked \cup {s} /\ loggedOut' = loggedOut \cup {s}
    /\ UNCHANGED <<today, key, sessions, call, late>>

FirebaseLogin(c) ==
    /\ call[c] = Quiet
    /\ call' = [call EXCEPT ![c] = [pc |-> "login"]]
    /\ UNCHANGED <<today, key, sessions, revoked, loggedOut, late>>

\* The site accepts the account, rejects it, or cannot be reached.
VerifyLogin(c) ==
    /\ call[c].pc = "login"
    /\ call' = [call EXCEPT ![c] = Quiet]
    /\ Create("account") \/ UNCHANGED sessions
    /\ UNCHANGED <<today, key, revoked, loggedOut, late>>

\* check_session, the profile of a session without account, and what every other
\* handler asks: the session is looked at once, when it is used.
Profile(c, s) ==
    /\ call[c] = Quiet /\ Valid(s) /\ sessions[s].kind = "account"
    /\ call' = [call EXCEPT ![c] = [pc |-> "profile", session |-> s]]
    /\ UNCHANGED <<today, key, sessions, revoked, loggedOut, late>>

\* Were the session not looked at again after the site's answer.
RefreshProfileAtOnce(c) ==
    /\ call[c].pc = "profile"
    /\ LET s == call[c].session
       IN  late' = (late \/ s \in loggedOut \/ today - sessions[s].iat > SessionLife(s))
    /\ call' = [call EXCEPT ![c] = Quiet]
    /\ UNCHANGED <<today, key, sessions, revoked, loggedOut>>

\* The profile of an account is given, refreshed or not, if the session still holds.
RefreshProfile(c) ==
    /\ call[c].pc = "profile"
    /\ LET s == call[c].session
           session_info == Valid(s)
       IN  late' = (late \/ (session_info /\ (\/ s \in loggedOut
                                            \/ today - sessions[s].iat > SessionLife(s))))
    /\ call' = [call EXCEPT ![c] = Quiet]
    /\ UNCHANGED <<today, key, sessions, revoked, loggedOut>>

----------------------------------------------------------------------------
(* The world. *)

PassToday ==
    /\ today < MaxToday /\ today' = today + 1
    /\ UNCHANGED <<key, sessions, revoked, loggedOut, call, late>>

\* The revocation set is lost; the tokens may be others.
Restart ==
    /\ revoked' = {} /\ loggedOut' = {} /\ call' = [c \in Client |-> Quiet]
    /\ key' \in {key, 2}
    /\ UNCHANGED <<today, sessions, late>>

SessionsNext ==
    \/ Login \/ PassToday \/ Restart
    \/ \E s \in DOMAIN sessions : Revoke(s) \/ \E c \in Client : Profile(c, s)
    \/ \E c \in Client : FirebaseLogin(c) \/ VerifyLogin(c) \/ RefreshProfile(c)

SessionsSpec == SessionsInit /\ [][SessionsNext]_sessionVars

\* A profile is given only for a session that holds at that moment, whatever
\* happened while the site was asked, and a session that was logged out does not
\* hold under the same server.
SessionsHold == ~late /\ \A s \in loggedOut : ~Valid(s)

=============================================================================
