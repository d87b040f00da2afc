---------------------------- MODULE TokensProofs ----------------------------
(***************************************************************************)
(* What the token of one host keeps for any number of clients, logins and  *)
(* refreshes: a rotated refresh token is not lost, one client refreshes at *)
(* a time, and a refresh does not undo a login it could have seen.         *)
(***************************************************************************)
EXTENDS Tokens, TLAPS

ClientStates ==
    {Off} \cup [pc : {"ready"}, tok : Token] \cup [pc : {"sent"}, tok : Token, seen : Nat]
PullStates ==
    {Resting} \cup [pc : {"get"}] \cup [pc : {"compare", "write"}, tok : Token]

\* No token is minted later than the last login.
Issued(t) == t # NoToken => t.mint <= logins

Types ==
    /\ TokenTypeOK
    /\ clock \in Nat /\ issued \in Nat /\ logins \in Nat
    /\ client \in [Clients -> ClientStates] /\ pull \in PullStates
    /\ Issued(minted) /\ Issued(parameter) /\ Issued(held) /\ Issued(newest) /\ Issued(rotated)
    /\ FileReadable => Issued(tokenFile)
    /\ \A c \in Clients : client[c].pc # "off" => Issued(client[c].tok)
    /\ pull.pc \in {"compare", "write"} => Issued(pull.tok)

\* The daemon's last refresh is what a client reads next, unless a login outdates it.
NewestIsRead ==
    newest # NoToken /\ FileReadable =>
        \/ Stored.mint > newest.mint
        \/ Stored.mint = newest.mint /\ Stored.exp >= newest.exp

\* A refresh is sent for the login the file had, or a later one.
SentForSeen == \A c \in Clients : client[c].pc = "sent" => client[c].tok.mint >= client[c].seen

\* While nothing was told, the file is readable and holds no earlier login than the
\* daemon's memory or the request in flight.
FileLeads ==
    ~told =>
        /\ FileReadable
        /\ held # NoToken => held.mint <= tokenFile.mint
        /\ \A c \in Clients : client[c].pc = "sent" => client[c].tok.mint <= tokenFile.mint

\* While nothing was told, the rotated token of the last login is in the file, and
\* whatever the daemon holds or has sent of that login carries it.
RotatedStored ==
    ~told /\ rotated # NoToken /\ rotated.mint = logins =>
        /\ tokenFile.rt = rotated.rt /\ tokenFile.mint = logins
        /\ held # NoToken /\ held.mint = logins => held.rt = rotated.rt
        /\ \A c \in Clients : client[c].pc = "sent" =>
              client[c].tok.rt = rotated.rt /\ client[c].tok.mint = logins

\* A pull about to write brings a later login than the file's, or one that has itself
\* been followed.
PullBehind ==
    ~told /\ pull.pc = "write" =>
        tokenFile.mint < pull.tok.mint \/ pull.tok.mint < logins

TokenInv ==
    Types /\ NewestIsRead /\ SentForSeen /\ FileLeads /\ RotatedStored /\ PullBehind

------------------------------------------------------------------------------
(* What a read of the stored token finds and leaves *)

\* With a readable file, a read finds a token at least as late as the file's.
LEMMA StoredToken ==
    ASSUME Types, FileReadable
    PROVE  /\ tokenFile \in Token /\ Stored \in Token /\ Stored.mint <= logins
           /\ Stored.mint >= tokenFile.mint
           /\ Stored = tokenFile \/ (Stored = held /\ held # NoToken)
<1>1. tokenFile \in Token /\ held \in Token \cup {NoToken}
    BY DEF Types, TokenTypeOK, Tokens, FileReadable
<1>2. tokenFile.mint \in Nat /\ (held # NoToken => held.mint \in Nat)
    BY <1>1 DEF Token
<1>3. tokenFile.mint <= logins /\ (held # NoToken => held.mint <= logins)
    BY <1>1, TokenConstants DEF Types, Issued, FileReadable
<1> QED BY <1>1, <1>2, <1>3 DEF Stored, FileWins

\* Trying the held token's write again changes neither what the next read finds nor
\* the file's mint time, unless the held token was the later one.
LEMMA ReadKeeps ==
    ASSUME Types, FileReadable, ReadStored
    PROVE  /\ FileReadable' /\ tokenFile' \in Token /\ held' \in Tokens
           /\ Stored' = Stored
           /\ tokenFile' = tokenFile \/ (tokenFile' = held /\ held # NoToken /\ ~FileWins)
           /\ held' = NoToken \/ held' = held
<1>1. tokenFile \in Token /\ held \in Token \cup {NoToken}
    BY DEF Types, TokenTypeOK, Tokens, FileReadable
<1>2. NoToken \notin Token /\ Unreadable \notin Token BY TokenConstants
<1>3. CASE FileWins
    BY <1>1, <1>2, <1>3 DEF ReadStored, FileReadable, Stored, FileWins, Tokens
<1>4. CASE ~FileWins /\ diskFull
    BY <1>1, <1>2, <1>4 DEF ReadStored, FileReadable, Stored, FileWins, Tokens
<1>5. CASE ~FileWins /\ ~diskFull
    <2>1. held # NoToken BY <1>5 DEF FileWins
    <2> QED BY <1>1, <1>2, <1>5, <2>1 DEF ReadStored, FileReadable, Stored, FileWins, Tokens
<1> QED BY <1>3, <1>4, <1>5

------------------------------------------------------------------------------
(* Every step keeps the invariant *)

THEOREM InitInv == TokenInit => TokenInv
<1> SUFFICES ASSUME TokenInit PROVE TokenInv OBVIOUS
<1> USE TokenConstants DEF TokenInit
<1>1. tokenFile \in Token /\ tokenFile.mint = 1 /\ FileReadable
    BY DEF Token, FileReadable
<1>2. \A c \in Clients : client[c] = Off /\ client[c].pc = "off"
    BY DEF Off
<1>3. Types
    <2>a. \A c \in Clients : client[c].pc = "sent" <=> refreshLock = c
        BY <1>2
    <2>b. accepted \subseteq 1..issued OBVIOUS
    <2>1. TokenTypeOK
        BY <1>1, <2>a, <2>b DEF TokenTypeOK, Tokens
    <2>2. client \in [Clients -> ClientStates] /\ pull \in PullStates
        BY <1>2 DEF ClientStates, PullStates
    <2>3. pull.pc = "resting" BY DEF Resting
    <2> QED BY <1>1, <1>2, <2>1, <2>2, <2>3 DEF Types, Issued
<1>4. pull.pc = "resting" BY DEF Resting
<1> QED BY <1>1, <1>2, <1>3, <1>4
        DEF TokenInv, NewestIsRead, SentForSeen, FileLeads, RotatedStored, PullBehind

\* The vendor's and the disk's own steps, a slot, a put and the pull's two reads
\* touch no token of this host.
Quiet ==
    \/ Slot \/ PullGet \/ PullCompare \/ Put
    \/ TimePasses \/ WeekEnds \/ DiskFills \/ SpaceFreed

LEMMA QuietStep == ASSUME TokenInv, Quiet PROVE TokenInv'
<1> USE TokenConstants DEF TokenInv
<1>1. UNCHANGED <<issued, minted, logins, tokenFile, client, refreshLock, held, history>>
    BY DEF Quiet, Slot, PullGet, PullCompare, Put, TimePasses, WeekEnds, DiskFills,
           SpaceFreed, TokenTrouble, vendor, elsewhere, history
<1>2. pull' = pull \/ PullGet \/ PullCompare
    BY DEF Quiet, Slot, Put, TimePasses, WeekEnds, DiskFills, SpaceFreed
<1>3. /\ clock' \in Nat /\ accepted' \subseteq accepted /\ parameter' \in {parameter, minted}
      /\ diskFull' \in BOOLEAN /\ down' = down
    <2>1. CASE Slot \/ PullGet \/ PullCompare
        BY <2>1 DEF Slot, PullGet, PullCompare, vendor, elsewhere, Types, TokenTypeOK
    <2>2. CASE Put \/ TimePasses
        BY <2>2 DEF Put, TimePasses, vendor, elsewhere, Types, TokenTypeOK
    <2>3. CASE WeekEnds
        BY <2>3 DEF WeekEnds, elsewhere, Types, TokenTypeOK
    <2>4. CASE DiskFills \/ SpaceFreed
        BY <2>4 DEF DiskFills, SpaceFreed, vendor, elsewhere, Types, TokenTypeOK
    <2> QED BY <2>1, <2>2, <2>3, <2>4 DEF Quiet
<1>4. pull' \in PullStates /\ (pull'.pc \in {"compare", "write"} => Issued(pull'.tok))
    <2>1. CASE pull' = pull BY <2>1 DEF Types
    <2>2. CASE PullGet
        BY <2>2 DEF PullGet, PullStates, Types, TokenTypeOK, Issued
    <2>3. CASE PullCompare
        <3>1. pull \in [pc : {"compare", "write"}, tok : Token]
            BY <2>3 DEF PullCompare, Types, PullStates, Resting
        <3>2. pull' = Resting \/ pull' = [pull EXCEPT !.pc = "write"]
            BY <2>3 DEF PullCompare
        <3> QED BY <2>3, <3>1, <3>2 DEF PullCompare, PullStates, Types, Resting
    <2> QED BY <1>2, <2>1, <2>2, <2>3
<1>5. Types'
    BY <1>1, <1>3, <1>4 DEF Types, TokenTypeOK, Issued, FileReadable, history
<1>6. PullBehind'
    <2>1. CASE pull' = pull BY <1>1, <2>1 DEF PullBehind, history
    <2>2. CASE PullGet BY <2>2 DEF PullBehind, PullGet
    <2>3. CASE PullCompare
        <3>1. pull'.pc = "write" => PullWrites /\ pull'.tok = pull.tok
            BY <2>3 DEF PullCompare, Types, PullStates, Resting
        <3>2. pull \in [pc : {"compare", "write"}, tok : Token]
            BY <2>3 DEF PullCompare, Types, PullStates, Resting
        <3>3. ~told => tokenFile \in Token
            BY DEF FileLeads, FileReadable, Types, TokenTypeOK, Tokens
        <3> QED BY <1>1, <3>1, <3>2, <3>3
                DEF PullBehind, PullWrites, FileLeads, Token, history
    <2> QED BY <1>2, <2>1, <2>2, <2>3
<1> QED BY <1>1, <1>5, <1>6 DEF NewestIsRead, SentForSeen, FileLeads, RotatedStored,
          Stored, FileWins, FileReadable, history

\* A request refused and a restart put clients to rest, and a restart forgets what
\* the daemon held.
LEMMA RestStep ==
    ASSUME TokenInv, (\E c \in Clients : RefreshRefused(c)) \/ DaemonRestarts
    PROVE  TokenInv'
<1> USE TokenConstants DEF TokenInv
<1>1. /\ UNCHANGED <<clock, accepted, issued, minted, logins, parameter, tokenFile, diskFull, rotated, told>>
      /\ held' \in {held, NoToken} /\ newest' \in {newest, NoToken}
      /\ held' = held \/ newest' = NoToken
      /\ down' \in BOOLEAN
    BY DEF RefreshRefused, DaemonRestarts, CapturesDown, TokenTrouble, vendor, elsewhere,
           history, Types, TokenTypeOK
<1>2. pull' = pull \/ pull' = [pc |-> "get"]
    BY DEF RefreshRefused, DaemonRestarts, CapturesDown
<1>3. pull' \in PullStates /\ (pull'.pc \in {"compare", "write"} => pull' = pull)
    BY <1>2 DEF PullStates, Types
<1>4. \A c \in Clients : client'[c] = client[c] \/ client'[c] = Off
    BY DEF RefreshRefused, DaemonRestarts, Types
<1>5. client' \in [Clients -> ClientStates]
    BY DEF RefreshRefused, DaemonRestarts, Types, ClientStates
<1>6. refreshLock' = NoToken /\ \A c \in Clients : client'[c].pc # "sent"
    BY DEF RefreshRefused, DaemonRestarts, Types, TokenTypeOK, ClientStates, Off
<1>7. \A c \in Clients : client'[c].pc # "off" => client'[c] = client[c]
    BY <1>4 DEF Off
<1>8. Types'
    BY <1>1, <1>3, <1>5, <1>6, <1>7 DEF Types, TokenTypeOK, Issued, FileReadable, Tokens
<1>9. newest' # NoToken => newest' = newest /\ held' = held BY <1>1
<1> QED BY <1>1, <1>3, <1>6, <1>8, <1>9 DEF NewestIsRead, SentForSeen, FileLeads,
          RotatedStored, PullBehind, Stored, FileWins, FileReadable

\* What a client reads becomes its own token, and nothing the rotation rests on moves.
LEMMA ReadStep ==
    ASSUME TokenInv, FileReadable, ReadStored,
           UNCHANGED <<logins, newest, rotated, told, minted, parameter>>
    PROVE  /\ NewestIsRead' /\ Issued(tokenFile)' /\ Issued(held)'
           /\ ~told => /\ (held # NoToken => held.mint <= tokenFile.mint)'
                       /\ tokenFile'.mint = tokenFile.mint /\ Stored.mint = tokenFile.mint
           /\ ~told /\ rotated # NoToken /\ rotated.mint = logins =>
                 /\ (tokenFile.rt = rotated.rt)'
                 /\ (held # NoToken /\ held.mint = logins => held.rt = rotated.rt)'
                 /\ Stored.rt = rotated.rt
<1> USE TokenConstants DEF TokenInv
<1>1. /\ tokenFile \in Token /\ Stored \in Token
      /\ Stored = tokenFile \/ (Stored = held /\ held # NoToken)
    BY StoredToken
<1>2. /\ FileReadable' /\ Stored' = Stored
      /\ tokenFile' = tokenFile \/ (tokenFile' = held /\ held # NoToken /\ ~FileWins)
      /\ held' = NoToken \/ held' = held
    BY ReadKeeps
<1>3. held # NoToken => held \in Token BY DEF Types, TokenTypeOK, Tokens
<1>4. NewestIsRead' BY <1>2 DEF NewestIsRead
<1>5. Issued(tokenFile)' /\ Issued(held)' BY <1>2 DEF Issued, Types
<1>6. ASSUME ~told, held # NoToken, ~FileWins PROVE held.mint = tokenFile.mint
    BY <1>1, <1>3, <1>6 DEF FileWins, FileLeads, Token
<1>7. Stored # tokenFile => Stored = held /\ ~FileWins BY <1>1 DEF Stored
<1>8. ASSUME ~told
      PROVE  /\ (held # NoToken => held.mint <= tokenFile.mint)'
             /\ tokenFile'.mint = tokenFile.mint /\ Stored.mint = tokenFile.mint
    BY <1>1, <1>2, <1>6, <1>7, <1>8 DEF FileLeads
<1>9. ASSUME ~told, rotated # NoToken, rotated.mint = logins
      PROVE  /\ (tokenFile.rt = rotated.rt)'
             /\ (held # NoToken /\ held.mint = logins => held.rt = rotated.rt)'
             /\ Stored.rt = rotated.rt
    BY <1>1, <1>2, <1>6, <1>7, <1>9 DEF RotatedStored
<1> QED BY <1>4, <1>5, <1>8, <1>9

LEMMA BuildStep == ASSUME TokenInv, NEW c \in Clients, Build(c) PROVE TokenInv'
<1> USE TokenConstants DEF TokenInv
<1>1. UNCHANGED <<clock, accepted, issued, minted, logins, parameter, diskFull, refreshLock,
                  newest, rotated, told>>
    BY DEF Build, vendor, elsewhere, history
<1>2. /\ down' \in BOOLEAN /\ pull' \in PullStates
      /\ pull'.pc \in {"compare", "write"} => pull' = pull
    <2>1. down' \in {down, TRUE} /\ (pull' = pull \/ pull' = [pc |-> "get"])
        BY DEF Build, CapturesDown
    <2>2. pull \in PullStates /\ [pc |-> "get"] \in PullStates
        BY DEF Types, PullStates
    <2>3. down \in BOOLEAN BY DEF Types, TokenTypeOK
    <2>4. CASE pull' = pull BY <2>1, <2>2, <2>3, <2>4
    <2>5. CASE pull' = [pc |-> "get"] BY <2>1, <2>2, <2>3, <2>5
    <2> QED BY <2>1, <2>4, <2>5
<1>3. CASE FileReadable
    <2>1. ReadStored /\ client' = [client EXCEPT ![c] = [pc |-> "ready", tok |-> Stored]]
        BY <1>3 DEF Build
    <2>2. PICK v : v = Stored OBVIOUS
    <2>3. v \in Token /\ v.mint <= logins BY <1>3, <2>2, StoredToken
    <2>4. FileReadable' /\ tokenFile' \in Token /\ held' \in Tokens
        BY <1>3, <2>1, ReadKeeps
    <2>5. client' = [client EXCEPT ![c] = [pc |-> "ready", tok |-> v]]
        BY <2>1, <2>2
    <2>6. /\ client' \in [Clients -> ClientStates]
          /\ client'[c].pc = "ready" /\ client'[c].tok = v /\ client[c].pc = "off"
          /\ \A d \in Clients \ {c} : client'[d] = client[d]
        BY <2>3, <2>5 DEF Types, ClientStates, Build
    <2>7. \A d \in Clients : client'[d].pc = "sent" <=> refreshLock' = d
        BY <1>1, <2>6 DEF Types, TokenTypeOK
    <2>8. \A d \in Clients : (client[d].pc # "off" => Issued(client[d].tok))'
        BY <1>1, <2>3, <2>6 DEF Types, Issued
    <2>a. Issued(tokenFile)' /\ Issued(held)' BY <1>1, <1>3, <2>1, ReadStep
    <2>b. TokenTypeOK'
        BY <1>1, <1>2, <2>4, <2>7 DEF Types, TokenTypeOK, Tokens
    <2>9. Types'
        BY <1>1, <1>2, <2>6, <2>8, <2>a, <2>b DEF Types, Issued
    <2>10. \A d \in Clients : client'[d].pc = "sent" => client'[d] = client[d]
        BY <2>6
    <2> QED BY <1>1, <1>2, <1>3, <2>1, <2>4, <2>9, <2>10, ReadStep
            DEF SentForSeen, FileLeads, RotatedStored, PullBehind
<1>4. CASE ~FileReadable
    <2>1. UNCHANGED <<client, held, tokenFile>> BY <1>4 DEF Build
    <2> QED BY <1>1, <1>2, <1>4, <2>1 DEF Types, TokenTypeOK, Issued, FileReadable,
              NewestIsRead, SentForSeen, FileLeads, RotatedStored, PullBehind, Stored, FileWins
<1> QED BY <1>3, <1>4

LEMMA RequestStep == ASSUME TokenInv, NEW c \in Clients, Request(c) PROVE TokenInv'
<1> USE TokenConstants DEF TokenInv
<1>1. UNCHANGED <<clock, accepted, issued, minted, logins, parameter, diskFull,
                  newest, rotated, told>>
    BY DEF Request, vendor, elsewhere, history
<1>2. /\ down' \in BOOLEAN /\ pull' = pull
    BY DEF Request, Captures, Types, TokenTypeOK
<1>3. PICK own : own = client[c].tok OBVIOUS
<1>4. own \in Token /\ own.mint <= logins
    <2>1. client[c] \in ClientStates /\ client[c].pc = "ready"
        BY DEF Request, Types
    <2>2. client[c].tok \in Token BY <2>1 DEF ClientStates, Off
    <2> QED BY <1>3, <2>1, <2>2 DEF Types, Issued
<1>5. PICK v : v = IF Live(own) THEN own ELSE Adopted(own) OBVIOUS
<1>6. v \in Token /\ v.mint <= logins
    BY <1>4, <1>5, StoredToken DEF Adopted
<1>7. /\ FileReadable' <=> FileReadable
      /\ FileReadable => tokenFile' \in Token
      /\ held' \in Tokens /\ tokenFile' \in Tokens \cup {Unreadable}
      /\ NewestIsRead' /\ (FileReadable' => Issued(tokenFile)') /\ Issued(held)'
    <2>1. CASE FileReadable /\ ~Live(own)
        BY <1>1, <1>3, <2>1, ReadKeeps, ReadStep DEF Request, Tokens
    <2>2. CASE ~(FileReadable /\ ~Live(own))
        BY <1>1, <1>3, <2>2 DEF Request, Types, TokenTypeOK, Tokens, FileReadable,
           NewestIsRead, Stored, FileWins, Issued
    <2> QED BY <2>1, <2>2
<1>8. ~told => /\ FileReadable' /\ (held # NoToken => held.mint <= tokenFile.mint)'
               /\ tokenFile'.mint = tokenFile.mint
               /\ ~Live(v) => v.mint = tokenFile.mint
    <2>1. CASE FileReadable /\ ~Live(own)
        BY <1>1, <1>3, <1>5, <1>7, <2>1, ReadStep DEF Request, Adopted
    <2>2. CASE ~(FileReadable /\ ~Live(own))
        BY <1>1, <1>3, <1>5, <1>7, <2>2 DEF Request, FileLeads
    <2> QED BY <2>1, <2>2
<1>9. ~told /\ rotated # NoToken /\ rotated.mint = logins =>
        /\ (tokenFile.rt = rotated.rt)' /\ (tokenFile.mint = logins)'
        /\ (held # NoToken /\ held.mint = logins => held.rt = rotated.rt)'
        /\ ~Live(v) => v.rt = rotated.rt /\ v.mint = logins
    <2>1. CASE FileReadable /\ ~Live(own)
        BY <1>1, <1>3, <1>5, <1>8, <2>1, ReadStep DEF Request, Adopted, RotatedStored
    <2>2. CASE ~(FileReadable /\ ~Live(own))
        BY <1>1, <1>3, <1>5, <1>8, <2>2 DEF Request, FileLeads, RotatedStored
    <2> QED BY <2>1, <2>2
<1>10. PICK seen \in Nat : seen = IF FileReadable THEN tokenFile.mint ELSE 0
    <2>1. FileReadable => tokenFile \in Token BY StoredToken
    <2> QED BY <2>1 DEF Token
<1>11. ~Live(v) => v.mint >= seen
    <2>1. v \in Token /\ (FileReadable /\ ~Live(own) => v.mint >= tokenFile.mint)
        BY <1>5, <1>6, StoredToken DEF Adopted
    <2>2. ~Live(v) => ~Live(own) BY <1>5
    <2> QED BY <1>10, <2>1, <2>2 DEF Token
<1>12. CASE Live(v)
    <2>1. client' = [client EXCEPT ![c] = Off] /\ refreshLock' = refreshLock
        BY <1>3, <1>5, <1>12 DEF Request
    <2>2. client' \in [Clients -> ClientStates] /\ client'[c].pc = "off"
          /\ \A d \in Clients \ {c} : client'[d] = client[d]
        BY <2>1 DEF Types, ClientStates, Off
    <2>3. \A d \in Clients : client'[d].pc = "sent" <=> refreshLock' = d
        BY <2>1, <2>2 DEF Types, TokenTypeOK, Request
    <2>4. Types'
        BY <1>1, <1>2, <1>7, <2>1, <2>2, <2>3 DEF Types, TokenTypeOK, Issued
    <2> QED BY <1>1, <1>2, <1>7, <1>8, <1>9, <2>2, <2>4
            DEF SentForSeen, FileLeads, RotatedStored, PullBehind
<1>13. CASE ~Live(v)
    <2>1. /\ client' = [client EXCEPT ![c] = [pc |-> "sent", tok |-> v, seen |-> seen]]
          /\ refreshLock' = c
        BY <1>3, <1>5, <1>10, <1>13 DEF Request
    <2>2. /\ client' \in [Clients -> ClientStates]
          /\ client'[c] = [pc |-> "sent", tok |-> v, seen |-> seen]
          /\ \A d \in Clients \ {c} : client'[d] = client[d]
        BY <1>6, <1>10, <2>1 DEF Types, ClientStates
    <2>3. \A d \in Clients \ {c} : client[d].pc # "sent"
        BY DEF Types, TokenTypeOK, Request
    <2>4. Types'
        BY <1>1, <1>2, <1>6, <1>7, <2>1, <2>2, <2>3 DEF Types, TokenTypeOK, Issued
    <2>5. SentForSeen' BY <1>11, <1>13, <2>2 DEF SentForSeen
    <2>6. \A d \in Clients : client'[d].pc = "sent" => client'[d].tok = v
        BY <2>2, <2>3
    <2>7. FileLeads'
        <3>1. ~told => v.mint <= tokenFile'.mint
            BY <1>6, <1>8, <1>13 DEF Token
        <3> QED BY <1>1, <1>8, <2>6, <3>1 DEF FileLeads
    <2>8. RotatedStored' BY <1>1, <1>9, <1>13, <2>6 DEF RotatedStored
    <2>9. PullBehind' BY <1>1, <1>2, <1>8 DEF PullBehind
    <2> QED BY <1>7, <2>4, <2>5, <2>7, <2>8, <2>9
<1> QED BY <1>12, <1>13

LEMMA RefreshStep == ASSUME TokenInv, NEW c \in Clients, RefreshAnswered(c) PROVE TokenInv'
<1> USE TokenConstants DEF TokenInv
<1>1. PICK old : old = client[c].tok OBVIOUS
<1>2. old \in Token /\ old.mint <= logins
    <2>1. client[c] \in ClientStates /\ client[c].pc = "sent"
        BY DEF RefreshAnswered, Types
    <2>2. client[c].tok \in Token BY <2>1 DEF ClientStates, Off
    <2> QED BY <1>1, <2>1, <2>2 DEF Types, Issued
<1>3. PICK rt : /\ Refreshed(c, rt)
                /\ \/ rt = old.rt /\ UNCHANGED <<issued, accepted>>
                   \/ /\ rt = issued + 1 /\ issued' = issued + 1
                      /\ accepted' = (accepted \ {old.rt}) \cup {rt}
    BY <1>1 DEF RefreshAnswered
<1>4. rt \in Nat /\ issued' \in Nat /\ accepted' \subseteq 1..issued'
    <2>1. issued \in Nat /\ accepted \subseteq 1..issued /\ old.rt \in Nat
        BY <1>2 DEF Types, TokenTypeOK, Token
    <2>2. CASE rt = old.rt /\ UNCHANGED <<issued, accepted>> BY <2>1, <2>2
    <2>3. CASE /\ rt = issued + 1 /\ issued' = issued + 1
               /\ accepted' = (accepted \ {old.rt}) \cup {rt}
        <3>1. \A k \in 1..issued : k \in 1..(issued + 1) BY <2>1
        <3>2. issued + 1 \in 1..(issued + 1) BY <2>1
        <3>3. \A k \in accepted' : k \in accepted \/ k = issued + 1 BY <2>3
        <3>4. accepted' \subseteq 1..(issued + 1) BY <2>1, <3>1, <3>2, <3>3
        <3>5. rt \in Nat /\ issued' \in Nat BY <2>1, <2>3
        <3> QED BY <2>3, <3>4, <3>5
    <2> QED BY <1>3, <2>2, <2>3
<1>5. PICK new : new = [mint |-> old.mint, rt |-> rt, exp |-> clock + 1] OBVIOUS
<1>6. new \in Token /\ new.mint = old.mint /\ new.rt = rt
    BY <1>2, <1>4, <1>5 DEF Types, Token
<1>7. /\ newest' = new /\ rotated' = IF rt # old.rt THEN new ELSE rotated
      /\ IF diskFull THEN held' = new /\ tokenFile' = tokenFile
                     ELSE tokenFile' = new /\ held' = NoToken
      /\ told' = (told \/ (diskFull /\ rt # old.rt))
      /\ down' \in {down, FALSE} /\ pull' = pull
    BY <1>1, <1>3, <1>5 DEF Refreshed, Captures
<1>8. /\ UNCHANGED <<clock, logins, minted, parameter, diskFull>>
      /\ client' = [client EXCEPT ![c] = Off] /\ refreshLock' = NoToken
    BY DEF RefreshAnswered, elsewhere
<1>9. /\ client' \in [Clients -> ClientStates]
      /\ \A d \in Clients : client'[d].pc # "sent"
      /\ \A d \in Clients : client'[d].pc # "off" => client'[d] = client[d]
    <2>1. \A d \in Clients \ {c} : client[d].pc # "sent"
        BY DEF Types, TokenTypeOK, RefreshAnswered
    <2> QED BY <1>8, <2>1 DEF Types, ClientStates, Off
<1>10. TokenTypeOK'
    BY <1>4, <1>6, <1>7, <1>8, <1>9 DEF Types, TokenTypeOK, Tokens
<1>11. Types'
    <2>1. Issued(newest)' /\ Issued(rotated)' /\ Issued(held)'
        BY <1>2, <1>6, <1>7, <1>8 DEF Types, Issued
    <2>2. (FileReadable => Issued(tokenFile))'
        BY <1>2, <1>6, <1>7, <1>8 DEF Types, Issued, FileReadable
    <2>3. \A d \in Clients : (client[d].pc # "off" => Issued(client[d].tok))'
        BY <1>8, <1>9 DEF Types, Issued
    <2> QED BY <1>4, <1>7, <1>8, <1>9, <1>10, <2>1, <2>2, <2>3 DEF Types, Issued
<1>12. NewestIsRead'
    <2>1. CASE diskFull
        <3>1. held' = new /\ newest' = new /\ tokenFile' = tokenFile BY <1>7, <2>1
        <3>2. FileReadable => tokenFile \in Token BY StoredToken
        <3> QED BY <1>6, <3>1, <3>2
                DEF NewestIsRead, Stored, FileWins, FileReadable, Token
    <2>2. CASE ~diskFull
        BY <1>6, <1>7, <2>2 DEF NewestIsRead, Stored, FileWins, Token
    <2> QED BY <2>1, <2>2
<1>13. SentForSeen' BY <1>9 DEF SentForSeen
<1>14. ASSUME ~told' PROVE ~told /\ tokenFile \in Token /\ old.mint <= tokenFile.mint
    <2>1. ~told BY <1>7, <1>14
    <2>2. FileReadable /\ client[c].pc = "sent" BY <2>1 DEF FileLeads, RefreshAnswered
    <2> QED BY <1>1, <2>1, <2>2, StoredToken DEF FileLeads
<1>15. FileLeads'
    <2>1. ASSUME ~told' PROVE FileReadable' /\ (held # NoToken => held.mint <= tokenFile.mint)'
        <3>1. new \notin {NoToken, Unreadable} BY <1>6
        <3>2. ~told => FileReadable BY DEF FileLeads
        <3>3. CASE diskFull BY <1>6, <1>7, <1>14, <2>1, <3>2, <3>3 DEF FileReadable
        <3>4. CASE ~diskFull BY <1>7, <3>1, <3>4 DEF FileReadable
        <3> QED BY <3>3, <3>4
    <2> QED BY <1>9, <2>1 DEF FileLeads
<1>16. RotatedStored'
    <2> SUFFICES ASSUME ~told', rotated' # NoToken, rotated'.mint = logins
                 PROVE  /\ tokenFile'.rt = rotated'.rt /\ tokenFile'.mint = logins
                        /\ held' # NoToken /\ held'.mint = logins => held'.rt = rotated'.rt
        BY <1>8, <1>9 DEF RotatedStored
    <2>1. CASE rt # old.rt
        BY <1>6, <1>7, <2>1
    <2>2. CASE rt = old.rt
        <3>1. rotated' = rotated BY <1>7, <2>2
        <3>2. /\ old.rt = rotated.rt /\ old.mint = logins
              /\ tokenFile.rt = rotated.rt /\ tokenFile.mint = logins
            BY <1>1, <1>14, <3>1 DEF RotatedStored, RefreshAnswered
        <3> QED BY <1>6, <1>7, <2>2, <3>1, <3>2
    <2> QED BY <2>1, <2>2
<1>17. PullBehind'
    <2> SUFFICES ASSUME ~told', pull.pc = "write"
                 PROVE  tokenFile'.mint < pull.tok.mint \/ pull.tok.mint < logins
        BY <1>7, <1>8 DEF PullBehind
    <2>1. pull.tok \in Token BY DEF Types, PullStates, Resting
    <2>2. tokenFile.mint < pull.tok.mint \/ pull.tok.mint < logins BY <1>14 DEF PullBehind
    <2>3. tokenFile'.mint <= tokenFile.mint /\ tokenFile'.mint \in Nat
        BY <1>6, <1>7, <1>14 DEF Token
    <2> QED BY <1>14, <2>1, <2>2, <2>3 DEF Token
<1> QED BY <1>11, <1>12, <1>13, <1>15, <1>16, <1>17

\* A pull's write, over any file.
LEMMA PullWriteStep == ASSUME TokenInv, PullWrite PROVE TokenInv'
<1> USE TokenConstants DEF TokenInv
<1>1. /\ UNCHANGED <<vendor, elsewhere, diskFull, client, refreshLock, held, down, rotated>>
      /\ pull.pc = "write" /\ pull' = Resting /\ newest' = NoToken
      /\ tokenFile' = IF diskFull THEN tokenFile ELSE pull.tok
      /\ told' = (told \/ (~diskFull /\ FileReadable /\ tokenFile.mint > pull.tok.mint))
    BY DEF PullWrite
<1> USE DEF vendor, elsewhere
<1>2. PICK t : t = pull.tok OBVIOUS
<1>3. t \in Token /\ t.mint <= logins /\ t \notin {NoToken, Unreadable}
    <2>1. pull.tok \in Token BY <1>1 DEF Types, PullStates, Resting
    <2> QED BY <1>1, <1>2, <2>1 DEF Types, Issued
<1>4. pull' \in PullStates /\ pull'.pc = "resting" BY <1>1 DEF PullStates, Resting
<1>5. Types'
    <2>1. tokenFile' \in Tokens \cup {Unreadable} /\ told' \in BOOLEAN
        BY <1>1, <1>2, <1>3 DEF Types, TokenTypeOK, Tokens
    <2>2. TokenTypeOK' BY <1>1, <2>1 DEF Types, TokenTypeOK, Tokens
    <2>3. (FileReadable => Issued(tokenFile))'
        BY <1>1, <1>2, <1>3 DEF Types, Issued, FileReadable
    <2> QED BY <1>1, <1>4, <2>2, <2>3 DEF Types, Issued
<1>6. NewestIsRead' BY <1>1 DEF NewestIsRead
<1>7. SentForSeen' BY <1>1 DEF SentForSeen
<1>8. ASSUME ~told'
      PROVE  /\ ~told /\ FileReadable /\ tokenFile \in Token
             /\ diskFull \/ (t.mint >= tokenFile.mint /\ tokenFile' = t)
    <2>1. ~told BY <1>1, <1>8
    <2>2. FileReadable /\ tokenFile \in Token BY <2>1, StoredToken DEF FileLeads
    <2>3. ~diskFull => ~(tokenFile.mint > t.mint) /\ tokenFile' = t
        BY <1>1, <1>2, <1>8, <2>2
    <2>4. tokenFile.mint \in Nat /\ t.mint \in Nat BY <1>3, <2>2 DEF Token
    <2> QED BY <2>1, <2>2, <2>3, <2>4
<1>9. FileLeads'
    <2>1. ASSUME ~told', diskFull PROVE FileLeads'
        BY <1>1, <1>8, <2>1 DEF FileLeads, FileReadable
    <2>2. ASSUME ~told', ~diskFull PROVE FileLeads'
        <3>1. held # NoToken => held.mint <= t.mint
            <4>1. held # NoToken => held \in Token BY DEF Types, TokenTypeOK, Tokens
            <4> QED BY <1>3, <1>8, <2>2, <4>1 DEF FileLeads, Token
        <3>2. \A c \in Clients : client[c].pc = "sent" => client[c].tok.mint <= t.mint
            <4>1. \A c \in Clients : client[c].pc = "sent" => client[c].tok \in Token
                BY DEF Types, ClientStates, Off
            <4> QED BY <1>3, <1>8, <2>2, <4>1 DEF FileLeads, Token
        <3>3. tokenFile' = t BY <1>1, <1>2, <2>2
        <3> QED BY <1>1, <1>3, <3>1, <3>2, <3>3 DEF FileLeads, FileReadable
    <2> QED BY <2>1, <2>2 DEF FileLeads
<1>10. RotatedStored'
    <2> SUFFICES ASSUME ~told', rotated # NoToken, rotated.mint = logins
                 PROVE  tokenFile' = tokenFile
        BY <1>1, <1>8 DEF RotatedStored
    <2>1. tokenFile.mint = logins BY <1>8 DEF RotatedStored
    <2>2. tokenFile.mint < t.mint \/ t.mint < logins BY <1>1, <1>2, <1>8 DEF PullBehind
    <2>3. diskFull BY <1>3, <1>8, <2>1, <2>2 DEF Token, Types
    <2> QED BY <1>1, <2>3
<1>11. PullBehind' BY <1>4 DEF PullBehind
<1> QED BY <1>5, <1>6, <1>7, <1>9, <1>10, <1>11

\* A login, on either host, is later than every token there is.
LEMMA LoginStep == ASSUME TokenInv, LoginElsewhere \/ LoginHere PROVE TokenInv'
<1> USE TokenConstants DEF TokenInv
<1>1. PICK t : /\ Minting(t)
               /\ \/ minted' = t /\ tokenFile' = tokenFile
                  \/ minted' = minted /\ tokenFile' = t
    BY DEF LoginElsewhere, LoginHere
<1>2. /\ UNCHANGED <<clock, parameter, diskFull, client, refreshLock, held, down, pull, history>>
    BY DEF LoginElsewhere, LoginHere
<1> USE DEF history
<1>3. /\ logins' = logins + 1 /\ issued' = issued + 1
      /\ t = [mint |-> logins + 1, rt |-> issued + 1, exp |-> clock + 1]
      /\ accepted' \subseteq accepted \cup {issued + 1}
    BY <1>1 DEF Minting
<1>4. t \in Token /\ t.mint = logins' /\ t \notin {NoToken, Unreadable}
    BY <1>3 DEF Token, Types
<1>5. \A u \in Token : u.mint <= logins => u.mint < logins' /\ u.mint <= logins'
    BY <1>3 DEF Token, Types
<1>6. /\ held # NoToken => held \in Token /\ held.mint <= logins
      /\ newest # NoToken => newest \in Token /\ newest.mint <= logins
      /\ rotated # NoToken => rotated \in Token /\ rotated.mint <= logins
    BY DEF Types, TokenTypeOK, Tokens, Issued
<1>7. \A c \in Clients : client[c].pc # "off" =>
        client[c].tok \in Token /\ client[c].tok.mint <= logins
    <2>1. \A c \in Clients : client[c].pc # "off" => client[c].tok \in Token
        BY DEF Types, ClientStates, Off
    <2> QED BY <2>1 DEF Types, Issued
<1>8. pull.pc \in {"compare", "write"} => pull.tok \in Token /\ pull.tok.mint <= logins
    <2>1. pull.pc \in {"compare", "write"} => pull.tok \in Token
        BY DEF Types, PullStates, Resting
    <2> QED BY <2>1 DEF Types, Issued
<1>9. Types'
    <2>1. issued' \in Nat /\ logins' \in Nat /\ accepted' \subseteq 1..issued'
        BY <1>3 DEF Types, TokenTypeOK
    <2>2. TokenTypeOK'
        BY <1>1, <1>2, <1>4, <2>1 DEF Types, TokenTypeOK, Tokens
    <2>3. Issued(minted)' /\ Issued(parameter)'
        <3>1. minted \in Token /\ parameter \in Token BY DEF Types, TokenTypeOK
        <3>2. minted.mint <= logins /\ parameter.mint <= logins BY <3>1 DEF Types, Issued
        <3>3. minted.mint <= logins' /\ parameter.mint <= logins' /\ t.mint <= logins'
            BY <1>4, <1>5, <2>1, <3>1, <3>2
        <3> QED BY <1>1, <1>2, <3>3 DEF Issued
    <2>4. Issued(held)' /\ Issued(newest)' /\ Issued(rotated)'
        BY <1>2, <1>5, <1>6 DEF Issued
    <2>5. (FileReadable => Issued(tokenFile))'
        <3>1. t.mint <= logins' BY <1>4, <2>1
        <3>2. FileReadable => tokenFile \in Token /\ tokenFile.mint <= logins
            BY StoredToken DEF Types, Issued
        <3>3. FileReadable => tokenFile.mint <= logins' BY <1>5, <3>2
        <3> QED BY <1>1, <3>1, <3>3 DEF Issued, FileReadable
    <2>6. \A c \in Clients : (client[c].pc # "off" => Issued(client[c].tok))'
        BY <1>2, <1>5, <1>7 DEF Issued
    <2>7. (pull.pc \in {"compare", "write"} => Issued(pull.tok))'
        BY <1>2, <1>5, <1>8 DEF Issued
    <2> QED BY <1>2, <2>1, <2>2, <2>3, <2>4, <2>5, <2>6, <2>7 DEF Types
<1>10. NewestIsRead'
    <2>1. CASE tokenFile' = t
        BY <1>2, <1>4, <1>5, <1>6, <2>1 DEF NewestIsRead, Stored, FileWins, Token
    <2>2. CASE tokenFile' = tokenFile
        BY <1>2, <2>2 DEF NewestIsRead, Stored, FileWins, FileReadable
    <2> QED BY <1>1, <2>1, <2>2
<1>11. SentForSeen' BY <1>2 DEF SentForSeen
<1>12. FileLeads'
    <2>1. CASE tokenFile' = t
        BY <1>2, <1>4, <1>5, <1>6, <1>7, <2>1 DEF FileLeads, FileReadable
    <2>2. CASE tokenFile' = tokenFile
        BY <1>2, <2>2 DEF FileLeads, FileReadable
    <2> QED BY <1>1, <2>1, <2>2
<1>13. RotatedStored' 
    <2>1. rotated # NoToken => rotated.mint # logins' BY <1>3, <1>5, <1>6 DEF Types, Token
    <2> QED BY <1>2, <2>1 DEF RotatedStored
<1>14. PullBehind' BY <1>2, <1>5, <1>8 DEF PullBehind
<1> QED BY <1>9, <1>10, <1>11, <1>12, <1>13, <1>14

\* A hand loses the file.
LEMMA LossStep == ASSUME TokenInv, FileLost PROVE TokenInv'
<1> USE TokenConstants DEF TokenInv
<1>1. /\ UNCHANGED <<vendor, elsewhere, diskFull, client, refreshLock, held, down, pull, rotated>>
      /\ tokenFile' \in {NoToken, Unreadable} /\ newest' = NoToken /\ told' = TRUE
    BY DEF FileLost
<1>2. Types'
    BY <1>1 DEF Types, TokenTypeOK, Tokens, Issued, FileReadable, vendor, elsewhere
<1> QED BY <1>1, <1>2 DEF NewestIsRead, SentForSeen, FileLeads, RotatedStored, PullBehind

LEMMA Stutter == ASSUME TokenInv, UNCHANGED tokenVars PROVE TokenInv'
BY DEF tokenVars, TokenInv, Types, TokenTypeOK, Issued, FileReadable, NewestIsRead,
       SentForSeen, FileLeads, RotatedStored, PullBehind, Stored, FileWins

LEMMA StepInv == TokenInv /\ [TokenNext]_tokenVars => TokenInv'
BY QuietStep, RestStep, BuildStep, RequestStep, RefreshStep, PullWriteStep, LoginStep,
   LossStep, Stutter DEF TokenNext, DaemonRuns, PullRuns, Quiet

\* The inductive invariant: whatever the order of requests, pulls, logins and losses.
THEOREM TokenInvariant == TokenSpec => []TokenInv
<1>1. TokenInit => TokenInv BY InitInv
<1> QED BY <1>1, StepInv, PTL DEF TokenSpec

\* TokenSound: a rotated refresh token of the last login is on disk or in the daemon,
\* or the operator was told.
THEOREM TokenSoundAlways == TokenSpec => []TokenSound
<1>1. TokenInv => TokenSound
    <2> SUFFICES ASSUME TokenInv PROVE RotationKept
        BY DEF TokenSound, TokenInv, Types
    <2>1. ASSUME rotated # NoToken, rotated.mint = logins, ~told
          PROVE  tokenFile \notin {NoToken, Unreadable} /\ tokenFile.rt = rotated.rt
        BY <2>1 DEF TokenInv, FileLeads, RotatedStored, FileReadable
    <2> QED BY <2>1 DEF RotationKept
<1> QED BY <1>1, TokenInvariant, PTL

\* A client asks for a refresh only with what the file or the daemon holds, and only
\* when that has expired.
LEMMA AsksForExpired ==
    ASSUME TokenInv, TokenNext, NEW c \in Clients PROVE OneRefresh(c)
<1> USE TokenConstants DEF TokenInv
<1> SUFFICES ASSUME client'[c].pc = "sent", client[c].pc = "ready", FileReadable,
                    newest # NoToken, Live(newest)
             PROVE  client'[c].tok.mint # newest.mint
    BY DEF OneRefresh
<1>1. Request(c)
    <2>1. client[c] # client'[c] /\ client' # client OBVIOUS
    <2>2. ASSUME NEW d \in Clients, Build(d) PROVE FALSE
        BY <2>1, <2>2 DEF Build, Types
    <2>3. ASSUME NEW d \in Clients, RefreshAnswered(d) \/ RefreshRefused(d) PROVE FALSE
        BY <2>1, <2>3 DEF RefreshAnswered, RefreshRefused, Types, Off
    <2>4. ASSUME NEW d \in Clients \ {c}, Request(d) PROVE FALSE
        BY <2>1, <2>4 DEF Request, Types
    <2>5. ~DaemonRestarts BY DEF DaemonRestarts, Off
    <2>6. ~(Slot \/ PullRuns \/ LoginElsewhere \/ Put \/ LoginHere)
        BY <2>1 DEF Slot, PullRuns, PullGet, PullCompare, PullWrite, LoginElsewhere, Put, LoginHere
    <2>7. ~(TimePasses \/ WeekEnds \/ DiskFills \/ SpaceFreed \/ FileLost)
        BY <2>1 DEF TimePasses, WeekEnds, DiskFills, SpaceFreed, FileLost
    <2> QED BY <2>2, <2>3, <2>4, <2>5, <2>6, <2>7 DEF TokenNext, DaemonRuns
<1>2. PICK own : own = client[c].tok OBVIOUS
<1>3. PICK v : v = IF Live(own) THEN own ELSE Stored OBVIOUS
<1>4. ~Live(v) /\ client'[c].tok = v
    <2>1. CASE Live(v)
        <3>1. client' = [client EXCEPT ![c] = Off]
            BY <1>1, <1>2, <1>3, <2>1 DEF Request, Adopted
        <3> QED BY <3>1 DEF Types, Off
    <2>2. CASE ~Live(v)
        <3>1. client' = [client EXCEPT ![c] = [pc |-> "sent", tok |-> v, seen |-> tokenFile.mint]]
            BY <1>1, <1>2, <1>3, <2>2 DEF Request, Adopted
        <3> QED BY <2>2, <3>1 DEF Types
    <2> QED BY <2>1, <2>2
<1>5. v = Stored /\ v \in Token BY <1>3, <1>4, StoredToken
<1>6. newest \in Token BY DEF Types, TokenTypeOK, Tokens
<1> QED BY <1>4, <1>5, <1>6 DEF NewestIsRead, Live, Token, Types

\* Only the client that sent the request ends it, and it writes the mint time it sent.
LEMMA WritesWhatItSent ==
    ASSUME TokenInv, TokenNext, NEW c \in Clients PROVE MintKept(c)
<1> USE TokenConstants DEF TokenInv
<1> SUFFICES ASSUME client[c].pc = "sent", client'[c].pc = "off"
             PROVE  tokenFile' = tokenFile \/ tokenFile'.mint >= client[c].seen
    BY DEF MintKept
<1>1. client' # client /\ refreshLock = c
    BY DEF Types, TokenTypeOK
<1>2. ASSUME NEW d \in Clients, Build(d) \/ Request(d) PROVE FALSE
    BY <1>1, <1>2 DEF Build, Request
<1>3. ASSUME NEW d \in Clients, RefreshAnswered(d)
      PROVE  tokenFile' = tokenFile \/ tokenFile'.mint >= client[c].seen
    <2>1. d = c BY <1>1, <1>3 DEF RefreshAnswered, Types, TokenTypeOK
    <2>2. tokenFile' = tokenFile \/ tokenFile'.mint = client[c].tok.mint
        BY <1>3, <2>1 DEF RefreshAnswered, Refreshed
    <2> QED BY <2>2 DEF SentForSeen
<1>4. (\E d \in Clients : RefreshRefused(d)) \/ DaemonRestarts => tokenFile' = tokenFile
    BY DEF RefreshRefused, DaemonRestarts
<1>5. ~(Slot \/ PullRuns \/ LoginElsewhere \/ Put \/ LoginHere)
    BY <1>1 DEF Slot, PullRuns, PullGet, PullCompare, PullWrite, LoginElsewhere, Put, LoginHere
<1>6. ~(TimePasses \/ WeekEnds \/ DiskFills \/ SpaceFreed \/ FileLost)
    BY <1>1 DEF TimePasses, WeekEnds, DiskFills, SpaceFreed, FileLost
<1> QED BY <1>2, <1>3, <1>4, <1>5, <1>6 DEF TokenNext, DaemonRuns

\* RefreshSafe: clients that refresh side by side do it once, and none undoes a login
\* the file had when its request was sent.
THEOREM RefreshSafeAlways == TokenSpec => RefreshSafe
<1>1. TokenInv /\ [TokenNext]_tokenVars =>
        [\A c \in Clients : OneRefresh(c) /\ MintKept(c)]_tokenVars
    BY AsksForExpired, WritesWhatItSent
<1> QED BY <1>1, TokenInvariant, PTL DEF TokenSpec, RefreshSafe
=============================================================================
