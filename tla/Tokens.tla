------------------------------- MODULE Tokens -------------------------------
(***************************************************************************)
(* The Schwab token of one host (token_store.py, reauth.py, schwab.py):    *)
(* every client of the daemon may refresh and rewrite token.json, a        *)
(* re-login replaces it, and a pull copies the token parameter into it     *)
(* when the parameter was minted later.  The process-wide refresh lock     *)
(* orders the clients of the daemon and nothing else.                      *)
(*                                                                         *)
(* A token is the mint time of its login, its refresh token and the expiry *)
(* of its access token.  Whether a refresh rotates the refresh token, and  *)
(* whether a login revokes the one before, is the vendor's choice.         *)
(***************************************************************************)
EXTENDS Naturals

CONSTANTS
    Clients,    \* clients of the daemon that overlap: cycles and the fill
    Spacing,    \* PULL_SPACING, in cycles
    MaxClock, MaxLogins, MaxRefreshes, MaxTroubles,  \* bounds
    NoToken, Unreadable

Token == [mint : Nat, rt : Nat, exp : Nat]

ASSUME TokenConstants ==
    /\ Spacing \in Nat \ {0}
    /\ MaxClock \in Nat /\ MaxLogins \in Nat /\ MaxRefreshes \in Nat /\ MaxTroubles \in Nat
    /\ NoToken # Unreadable /\ NoToken \notin Token \cup Clients /\ Unreadable \notin Token

VARIABLES
    clock, accepted, issued,    \* the vendor: time, its live refresh tokens
    minted, logins, parameter,  \* the other host's last login; the token parameter
    tokenFile, diskFull,
    client, refreshLock, held,  \* the daemon: _HELD is held
    down, sincePull, pull,      \* its last cycle read as a dead token; its pull
    newest,     \* the daemon's last refresh, if no pull wrote since (history)
    rotated,    \* the last rotated token (history)
    told,       \* the rotation line was printed, a hand lost the file, or a pull wrote
                \* over a login on this host that came after it compared (history)
    troubles

tokenVars == <<clock, accepted, issued, minted, logins, parameter, tokenFile, diskFull,
               client, refreshLock, held, down, sincePull, pull, newest, rotated, told, troubles>>
vendor == <<clock, accepted, issued>>
elsewhere == <<minted, logins, parameter>>
history == <<newest, rotated, told>>

Off == [pc |-> "off"]
Resting == [pc |-> "resting"]
Live(t) == t.exp > clock
FileReadable == tokenFile \notin {NoToken, Unreadable}

TokenInit ==
    /\ clock = 0 /\ issued = 1 /\ accepted = {1}
    /\ tokenFile = [mint |-> 1, rt |-> 1, exp |-> 1]
    /\ minted = tokenFile /\ parameter = tokenFile /\ logins = 1
    /\ client = [c \in Clients |-> Off] /\ refreshLock = NoToken /\ held = NoToken
    /\ diskFull = FALSE /\ down = FALSE /\ sincePull = Spacing /\ pull = Resting
    /\ newest = NoToken /\ rotated = NoToken /\ told = FALSE /\ troubles = 0

------------------------------------------------------------------------------
(* The daemon's clients *)

\* _read_or_held: the file's token, or a held one newer than it.
FileWins == \/ held = NoToken
            \/ tokenFile.mint > held.mint
            \/ (tokenFile.mint = held.mint /\ tokenFile.exp >= held.exp)

Stored == IF FileWins THEN tokenFile ELSE held

\* The held token's write is tried again, and what it does to file and memory.
ReadStored ==
    /\ held' = IF FileWins \/ ~diskFull THEN NoToken ELSE held
    /\ tokenFile' = IF FileWins \/ diskFull THEN tokenFile ELSE held

\* A mutant of CapturesDown: one pull for each time capture goes down.
CapturesDownOnce ==
    /\ down' = TRUE
    /\ IF ~down /\ sincePull = Spacing /\ pull = Resting
       THEN pull' = [pc |-> "get"] /\ sincePull' = 0
       ELSE UNCHANGED <<pull, sincePull>>

\* A cycle that reads as a dead token spawns a pull, at most one per spacing of slots.
CapturesDown ==
    /\ down' = TRUE
    /\ IF sincePull = Spacing /\ pull = Resting
       THEN pull' = [pc |-> "get"] /\ sincePull' = 0
       ELSE UNCHANGED <<pull, sincePull>>

Captures == down' = FALSE /\ UNCHANGED <<pull, sincePull>>

\* The next slot comes.
Slot ==
    /\ sincePull < Spacing /\ sincePull' = sincePull + 1
    /\ UNCHANGED <<vendor, elsewhere, tokenFile, diskFull, client, refreshLock, held, down,
                   pull, history, troubles>>

\* client_from_token, at the top of a cycle.
Build(c) ==
    /\ client[c].pc = "off" /\ refreshLock = NoToken
    /\ IF FileReadable
       THEN /\ client' = [client EXCEPT ![c] = [pc |-> "ready", tok |-> Stored]]
            /\ ReadStored
            /\ UNCHANGED <<down, pull, sincePull>>
       ELSE CapturesDown /\ UNCHANGED <<client, held, tokenFile>>
    /\ UNCHANGED <<vendor, elsewhere, diskFull, refreshLock, history, troubles>>

\* A mutant of Adopted: the token without its mint time.
AdoptedTokenOnly(t) == IF FileReadable THEN [Stored EXCEPT !.mint = t.mint] ELSE t

\* _adopt_stored_token: the token and its mint time; a failed read keeps the client's own.
Adopted(t) == IF FileReadable THEN Stored ELSE t

\* ensure_active_token_once: adopt under the lock, then refresh what is still expired.
Request(c) ==
    /\ client[c].pc = "ready" /\ refreshLock = NoToken
    /\ LET tok == IF Live(client[c].tok) THEN client[c].tok ELSE Adopted(client[c].tok)
       IN  IF Live(tok)
           THEN client' = [client EXCEPT ![c] = Off] /\ Captures /\ UNCHANGED refreshLock
           ELSE /\ client' = [client EXCEPT ![c] =
                        [pc |-> "sent", tok |-> tok,
                         seen |-> IF FileReadable THEN tokenFile.mint ELSE 0]]
                /\ refreshLock' = c
                /\ UNCHANGED <<down, pull, sincePull>>
    /\ IF FileReadable /\ ~Live(client[c].tok) THEN ReadStored ELSE UNCHANGED <<held, tokenFile>>
    /\ UNCHANGED <<vendor, elsewhere, diskFull, history, troubles>>

\* A mutant of Refreshed: a rotated token is kept as quietly as any other.
RefreshedQuietly(c, rt) ==
    LET new == [mint |-> client[c].tok.mint, rt |-> rt, exp |-> clock + 1]
    IN  /\ newest' = new
        /\ rotated' = IF rt # client[c].tok.rt THEN new ELSE rotated
        /\ IF diskFull THEN held' = new /\ UNCHANGED tokenFile
                       ELSE tokenFile' = new /\ held' = NoToken
        /\ UNCHANGED told
        /\ Captures

\* RefreshTokenWriter: a write that fails keeps the token in the process.
Refreshed(c, rt) ==
    LET new == [mint |-> client[c].tok.mint, rt |-> rt, exp |-> clock + 1]
        rotates == rt # client[c].tok.rt
    IN  /\ newest' = new
        /\ rotated' = IF rotates THEN new ELSE rotated
        /\ IF diskFull THEN held' = new /\ UNCHANGED tokenFile
                       ELSE tokenFile' = new /\ held' = NoToken
        /\ told' = (told \/ (diskFull /\ rotates))
        /\ IF diskFull /\ rotates THEN UNCHANGED <<down, pull, sincePull>> ELSE Captures

RefreshAnswered(c) ==
    /\ client[c].pc = "sent" /\ client[c].tok.rt \in accepted
    /\ \/ Refreshed(c, client[c].tok.rt) /\ UNCHANGED <<issued, accepted>>
       \/ /\ issued < MaxRefreshes
          /\ issued' = issued + 1
          /\ accepted' = (accepted \ {client[c].tok.rt}) \cup {issued'}
          /\ Refreshed(c, issued')
    /\ client' = [client EXCEPT ![c] = Off] /\ refreshLock' = NoToken
    /\ UNCHANGED <<clock, elsewhere, diskFull, troubles>>

RefreshRefused(c) ==
    /\ client[c].pc = "sent" /\ client[c].tok.rt \notin accepted
    /\ CapturesDown
    /\ client' = [client EXCEPT ![c] = Off] /\ refreshLock' = NoToken
    /\ UNCHANGED <<vendor, elsewhere, tokenFile, diskFull, held, history, troubles>>

------------------------------------------------------------------------------
(* token_store.pull, in a process of its own, and the re-auths *)

PullWrites == ~FileReadable \/ pull.tok.mint > tokenFile.mint

PullGet ==
    /\ pull.pc = "get"
    /\ pull' = [pc |-> "compare", tok |-> parameter]
    /\ UNCHANGED <<vendor, elsewhere, tokenFile, diskFull, client, refreshLock, held, down,
                   sincePull, history, troubles>>

PullCompare ==
    /\ pull.pc = "compare"
    /\ pull' = IF PullWrites THEN [pull EXCEPT !.pc = "write"] ELSE Resting
    /\ UNCHANGED <<vendor, elsewhere, tokenFile, diskFull, client, refreshLock, held, down,
                   sincePull, history, troubles>>

PullWrite ==
    /\ pull.pc = "write"
    /\ tokenFile' = IF diskFull THEN tokenFile ELSE pull.tok
    /\ pull' = Resting
    /\ newest' = NoToken
    /\ told' = (told \/ (~diskFull /\ FileReadable /\ tokenFile.mint > pull.tok.mint))
    /\ UNCHANGED <<vendor, elsewhere, diskFull, client, refreshLock, held, down,
                   sincePull, rotated, troubles>>

Minting(t) ==
    /\ logins < MaxLogins /\ issued < MaxRefreshes
    /\ logins' = logins + 1 /\ issued' = issued + 1
    /\ t = [mint |-> logins', rt |-> issued', exp |-> clock + 1]
    /\ \E kept \in {accepted, {}} : accepted' = kept \cup {issued'}

\* reauth on the host with the browser, and its put, which may fail and be run again.
LoginElsewhere ==
    /\ \E t \in {[mint |-> logins + 1, rt |-> issued + 1, exp |-> clock + 1]} :
        Minting(t) /\ minted' = t
    /\ UNCHANGED <<clock, parameter, tokenFile, diskFull, client, refreshLock, held, down,
                   sincePull, pull, history, troubles>>

Put ==
    /\ parameter # minted
    /\ parameter' = minted
    /\ UNCHANGED <<vendor, minted, logins, tokenFile, diskFull, client, refreshLock, held, down,
                   sincePull, pull, history, troubles>>

\* reauth on this host: TokenWriter takes no lock.
LoginHere ==
    /\ ~diskFull
    /\ \E t \in {[mint |-> logins + 1, rt |-> issued + 1, exp |-> clock + 1]} :
        Minting(t) /\ tokenFile' = t
    /\ UNCHANGED <<clock, minted, parameter, diskFull, client, refreshLock, held, down,
                   sincePull, pull, history, troubles>>

------------------------------------------------------------------------------
TokenTrouble == troubles < MaxTroubles /\ troubles' = troubles + 1

TimePasses ==
    /\ clock < MaxClock /\ clock' = clock + 1
    /\ UNCHANGED <<accepted, issued, elsewhere, tokenFile, diskFull, client, refreshLock, held,
                   down, sincePull, pull, history, troubles>>

WeekEnds ==
    /\ TokenTrouble
    /\ \E rt \in accepted : accepted' = accepted \ {rt}
    /\ UNCHANGED <<clock, issued, elsewhere, tokenFile, diskFull, client, refreshLock, held,
                   down, sincePull, pull, history>>

DiskFills ==
    /\ ~diskFull /\ TokenTrouble /\ diskFull' = TRUE
    /\ UNCHANGED <<vendor, elsewhere, tokenFile, client, refreshLock, held, down, sincePull,
                   pull, history>>

SpaceFreed ==
    /\ diskFull /\ diskFull' = FALSE
    /\ UNCHANGED <<vendor, elsewhere, tokenFile, client, refreshLock, held, down, sincePull,
                   pull, history, troubles>>

FileLost ==
    /\ FileReadable /\ TokenTrouble
    /\ \E f \in {NoToken, Unreadable} : tokenFile' = f
    /\ newest' = NoToken /\ told' = TRUE
    /\ UNCHANGED <<vendor, elsewhere, diskFull, client, refreshLock, held, down, sincePull,
                   pull, rotated>>

DaemonRestarts ==
    /\ TokenTrouble
    /\ client' = [c \in Clients |-> Off] /\ refreshLock' = NoToken /\ held' = NoToken
    /\ down' = FALSE /\ sincePull' = Spacing /\ newest' = NoToken
    /\ UNCHANGED <<vendor, elsewhere, tokenFile, diskFull, pull, rotated, told>>

DaemonRuns ==
    \/ Slot
    \/ \E c \in Clients : Build(c) \/ Request(c) \/ RefreshAnswered(c) \/ RefreshRefused(c)
PullRuns == PullGet \/ PullCompare \/ PullWrite

TokenNext ==
    \/ DaemonRuns \/ PullRuns
    \/ LoginElsewhere \/ Put \/ LoginHere
    \/ TimePasses \/ WeekEnds \/ DiskFills \/ SpaceFreed \/ FileLost \/ DaemonRestarts

\* Cycles start every minute, so each client's cycle runs; so does a spawned pull.
TokenFairness ==
    /\ \A c \in Clients : /\ WF_tokenVars(Build(c)) /\ WF_tokenVars(Request(c))
                          /\ WF_tokenVars(RefreshAnswered(c) \/ RefreshRefused(c))
    /\ WF_tokenVars(Slot) /\ WF_tokenVars(PullRuns)
TokenSpec == TokenInit /\ [][TokenNext]_tokenVars /\ TokenFairness

------------------------------------------------------------------------------
Tokens == Token \cup {NoToken}
TokenTypeOK ==
    /\ accepted \subseteq 1..issued
    /\ {minted, parameter} \subseteq Token
    /\ tokenFile \in Tokens \cup {Unreadable}
    /\ {held, newest, rotated} \subseteq Tokens
    /\ refreshLock \in Clients \cup {NoToken}
    /\ \A c \in Clients : client[c].pc = "sent" <=> refreshLock = c
    /\ {diskFull, down, told} \subseteq BOOLEAN

\* However many clients find their access token expired, one of them refreshes: no
\* client asks for another while the daemon's last refresh is still good, unless a
\* later login has replaced it.
OneRefresh(c) ==
    client'[c].pc = "sent" /\ client[c].pc = "ready" /\ FileReadable =>
        newest = NoToken \/ ~Live(newest) \/ client'[c].tok.mint # newest.mint

\* A refresh never puts back an earlier mint time than the file had when it was sent,
\* so only a login or a pull that lands within that one request can be overwritten.
MintKept(c) ==
    client[c].pc = "sent" /\ client'[c].pc = "off" =>
        tokenFile' = tokenFile \/ tokenFile'.mint >= client[c].seen

\* Clients that refresh side by side do it once, and none undoes a login.
RefreshSafe == [][\A c \in Clients : OneRefresh(c) /\ MintKept(c)]_tokenVars

\* A rotated refresh token the vendor accepts, of a login nothing has followed, is on
\* disk or in the daemon, or the operator was told that only the daemon held it.
RotationKept ==
    rotated # NoToken /\ rotated.rt \in accepted /\ rotated.mint = logins /\ ~told =>
        rotated.rt \in {t.rt : t \in {tokenFile, held} \ {NoToken, Unreadable}}
TokenSound == TokenTypeOK /\ RotationKept

\* While the token parameter holds the latest login and it works, capture that went
\* down on a dead or unreadable token comes up again.
GoodParameter == parameter.rt \in accepted /\ parameter.mint = logins /\ ~diskFull
CaptureResumes == GoodParameter ~> (~down \/ ~GoodParameter)
=============================================================================
