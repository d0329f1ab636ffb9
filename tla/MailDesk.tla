------------------------------ MODULE MailDesk ------------------------------
(***************************************************************************)
(* The mail of one organization (MailService): drafts, sending, replies    *)
(* and the marks that the sender and each recipient keep.  Nothing leaves  *)
(* the database: a mail is sent when its row says so.                      *)
(*                                                                         *)
(* A request r does one database call per step.  An edit and a send of a   *)
(* draft first check that it is a draft (assertEditableDraft) and then     *)
(* write by id alone; every send ends by stamping the conversation.        *)
(*                                                                         *)
(* The sender of a mail is kept as the account spells its address, the     *)
(* recipients in lower case.  The folder lists look for the lower-case     *)
(* spelling in both, the marks for the account's own spelling.             *)
(*                                                                         *)
(* A definition whose name is not used below is a faulty variant of the    *)
(* one that follows it, for the mutation runs.                             *)
(***************************************************************************)
EXTENDS Integers, FiniteSets

CONSTANTS
  Messages,
  Conversations,
  Addresses,   \* e-mail addresses, letter case included
  LowerCase,   \* Addresses -> Addresses: toLowerCase()
  People,      \* the addresses of staff and portal accounts, as stored
  Texts,       \* subject and body
  Requests,    \* requests under way at once
  MaxClock,    \* bound of the model: moments that a row records
  MaxMarks,    \* bound of the model: marks set or taken back
  Nobody

ASSUME MailAssumption ==
  /\ MaxClock \in Nat /\ MaxMarks \in Nat
  /\ Nobody \notin Messages /\ Nobody \notin Texts /\ Nobody \notin Addresses
  /\ Nobody \notin Conversations
  /\ People \subseteq Addresses
  /\ LowerCase \in [Addresses -> Addresses]
  /\ \A e \in Addresses : LowerCase[LowerCase[e]] = LowerCase[e]

VARIABLES
  clock,      \* the last moment that a row recorded
  last,       \* lastMessageAt of a conversation, 0 without a row
  msg,        \* mail messages
  rcpt,       \* recipient rows of a message: the marks of each recipient
  own,        \* the marks of the sender
  req,        \* requests: program counter and locals
  marks,      \* marks so far (bounds the model)
  disturbed   \* conversations with a stamp that died or crossed another (history)

mailVars == <<clock, last, msg, rcpt, own, req, marks, disturbed>>

Flags == {"read", "starred", "archived", "trashed"}

NoMail == [st |-> "NONE", from |-> Nobody, text |-> Nobody, conv |-> Nobody, sentAt |-> 0]

Mail == [st : {"DRAFT", "SENT"}, from : People, text : Texts, conv : Conversations,
         sentAt : Nat]

\* edit and send hold a draft that passed its check, create holds a conversation,
\* stamp is about to write at to the conversation.  raced says that the draft
\* was sent after the check (history).
IdleRequest == [pc |-> "idle", m |-> Nobody, c |-> Nobody, at |-> 0, raced |-> FALSE]

MailRequest == [pc : {"idle", "edit", "send", "create", "stamp"}, m : Messages \cup {Nobody},
            c : Conversations \cup {Nobody}, at : Nat, raced : BOOLEAN]

\* What normalizeRecipients makes of addresses.
Normalized(R) == {LowerCase[p] : p \in R}

RecipientRows == UNION {[S -> SUBSET Flags] : S \in SUBSET Normalized(Addresses)}

MailTypeOK ==
  /\ clock \in Nat
  /\ last \in [Conversations -> Nat]
  /\ msg \in [Messages -> Mail \cup {NoMail}]
  /\ rcpt \in [Messages -> RecipientRows]
  /\ own \in [Messages -> SUBSET Flags]
  /\ req \in [Requests -> MailRequest]
  /\ marks \in Nat
  /\ disturbed \subseteq Conversations
  /\ \A m \in Messages : msg[m].st = "DRAFT" => msg[m].sentAt = 0

MailInit ==
  /\ clock = 0
  /\ last = [c \in Conversations |-> 0]
  /\ msg = [m \in Messages |-> NoMail]
  /\ rcpt = [m \in Messages |-> [p \in {} |-> {}]]
  /\ own = [m \in Messages |-> {}]
  /\ req = [r \in Requests |-> IdleRequest]
  /\ marks = 0
  /\ disturbed = {}

-----------------------------------------------------------------------------
Moment == clock < MaxClock /\ clock' = clock + 1

Unmarked(R) == [p \in R |-> {}]

Stamping(c) == {r \in Requests : req[r].pc = "stamp" /\ req[r].c = c}

\* A message of c is sent while an earlier one has yet to stamp c.
Cross(c) == IF Stamping(c) = {} THEN disturbed ELSE disturbed \cup {c}

\* resolveConversation: the one named, or a new one.
ResolveConversation(r, c, new) ==
  /\ req[r].pc = "idle"
  /\ new <=> last[c] = 0
  /\ IF new THEN Moment /\ last' = [last EXCEPT ![c] = clock + 1]
            ELSE UNCHANGED <<clock, last>>
  /\ req' = [req EXCEPT ![r] = [IdleRequest EXCEPT !.pc = "create", !.c = c]]
  /\ UNCHANGED <<msg, rcpt, own, marks, disturbed>>

\* The row of a message with its recipients, in one write.
InsertMail(r, m, mail, R) ==
  /\ msg[m] = NoMail
  /\ msg' = [msg EXCEPT ![m] = mail]
  /\ rcpt' = [rcpt EXCEPT ![m] = Unmarked(R)]
  /\ UNCHANGED <<last, own, marks>>

\* createDraft, kept as a draft: recipients may be missing.
CreateDraft(r, m, who, text, R) ==
  /\ req[r].pc = "create"
  /\ InsertMail(r, m, [st |-> "DRAFT", from |-> who, text |-> text, conv |-> req[r].c,
                   sentAt |-> 0], R)
  /\ req' = [req EXCEPT ![r] = IdleRequest]
  /\ UNCHANGED <<clock, disturbed>>

SendNew(r, m, c, who, text, R) ==
  /\ R # {}
  /\ Moment
  /\ InsertMail(r, m, [st |-> "SENT", from |-> who, text |-> text, conv |-> c,
                   sentAt |-> clock + 1], R)
  /\ req' = [req EXCEPT ![r] = [IdleRequest EXCEPT !.pc = "stamp", !.c = c, !.at = clock + 1]]
  /\ disturbed' = Cross(c)

\* createDraft with sendNow.
CreateAndSend(r, m, who, text, R) ==
  req[r].pc = "create" /\ SendNew(r, m, req[r].c, who, text, R)

\* Everybody in the conversation, the recipients of its drafts included.
Participants(c) ==
  UNION {{msg[m].from} \cup DOMAIN rcpt[m] : m \in {x \in Messages : msg[x].conv = c}}

\* Everybody else: a reply without recipients of its own goes to them.
Others(c, who) == Normalized(Participants(c)) \ {LowerCase[who]}

\* What is read
\* of the conversation before the insert is not read again after it, and rows
\* of others only add to it.
Reply(r, m, c, who, text, R) ==
  /\ req[r].pc = "idle"
  /\ last[c] # 0
  /\ \E all \in BOOLEAN :
       SendNew(r, m, c, who, text, IF all THEN Others(c, who) ELSE R)

-----------------------------------------------------------------------------
(* Drafts. *)
AnyMailIsEditable(m, who) == msg[m] # NoMail /\ msg[m].from = who /\ "trashed" \notin own[m]

\* assertEditableDraft
EditableDraft(m, who) ==
  msg[m].st = "DRAFT" /\ msg[m].from = who /\ "trashed" \notin own[m]

Check(r, m, pc) ==
  /\ req[r].pc = "idle"
  /\ \E who \in People : EditableDraft(m, who)
  /\ req' = [req EXCEPT ![r] = [IdleRequest EXCEPT !.pc = pc, !.m = m]]
  /\ UNCHANGED <<clock, last, msg, rcpt, own, marks, disturbed>>

\* Text and recipients are each optional; new recipients start without marks.
UpdateDraft(r, text) ==
  LET m == req[r].m
  IN /\ req[r].pc = "edit"
     /\ msg' = [msg EXCEPT ![m].text = text]
     /\ \E rows \in {rcpt[m]} \cup {Unmarked(R) : R \in SUBSET Normalized(Addresses)} :
          rcpt' = [rcpt EXCEPT ![m] = rows]
     /\ req' = [req EXCEPT ![r] = IdleRequest]
     /\ UNCHANGED <<clock, last, own, marks, disturbed>>

SendDraft(r) ==
  LET m == req[r].m
      c == msg[m].conv
  IN /\ req[r].pc = "send"
     /\ Moment
     /\ msg' = [msg EXCEPT ![m].st = "SENT", ![m].sentAt = clock + 1]
     /\ req' = [q \in Requests |->
          IF q = r THEN [IdleRequest EXCEPT !.pc = "stamp", !.c = c, !.at = clock + 1]
          ELSE IF req[q].m = m THEN [req[q] EXCEPT !.raced = TRUE] ELSE req[q]]
     /\ disturbed' = Cross(c)
     /\ UNCHANGED <<last, rcpt, own, marks>>

\* The stamp is forgotten.
NoStamp(r) ==
  /\ req[r].pc = "stamp"
  /\ req' = [req EXCEPT ![r] = IdleRequest]
  /\ UNCHANGED <<clock, last, msg, rcpt, own, marks, disturbed>>

\* lastMessageAt, the last write of every send.
StampConversation(r) ==
  /\ req[r].pc = "stamp"
  /\ last' = [last EXCEPT ![req[r].c] = req[r].at]
  /\ req' = [req EXCEPT ![r] = IdleRequest]
  /\ UNCHANGED <<clock, msg, rcpt, own, marks, disturbed>>

\* The request fails or the process stops between two calls.
StopRequest(r) ==
  /\ req[r].pc # "idle"
  /\ disturbed' = IF req[r].pc = "stamp" THEN disturbed \cup {req[r].c} ELSE disturbed
  /\ req' = [req EXCEPT ![r] = IdleRequest]
  /\ UNCHANGED <<clock, last, msg, rcpt, own, marks>>

-----------------------------------------------------------------------------
(* Marks: markRead, toggleStar, archive, trash and restore. *)
SameAddress(p, q) == LowerCase[p] = LowerCase[q]

Marked(f, op) ==
  CASE op = "read"    -> f \cup {"read"}
    [] op = "star"    -> f \cup {"starred"}
    [] op = "unstar"  -> f \ {"starred"}
    [] op = "archive" -> (f \ {"trashed"}) \cup {"archived"}
    [] op = "trash"   -> f \cup {"trashed"}
    [] op = "restore" -> f \ {"archived", "trashed"}

\* The check of updateCurrentState, by the address as the account spells it.
Finds(m, who) == msg[m].from = who \/ who \in DOMAIN rcpt[m]

UpdateRowFirst(m, who, op) ==
  /\ marks < MaxMarks /\ Finds(m, who)
  /\ marks' = marks + 1
  /\ \/ /\ who \in DOMAIN rcpt[m]
        /\ rcpt' = [rcpt EXCEPT ![m][who] = Marked(@, op)]
        /\ UNCHANGED own
     \/ /\ who \notin DOMAIN rcpt[m]
        /\ own' = [own EXCEPT ![m] = Marked(@, op)]
        /\ UNCHANGED rcpt
  /\ UNCHANGED <<clock, last, msg, req, disturbed>>

\* updateCurrentState: the sender's own columns where the sender's address is the
\* actor's in lower case, else the rows of the recipient with the actor's spelling.
UpdateCurrentState(m, who, op) ==
  /\ marks < MaxMarks /\ Finds(m, who)
  /\ marks' = marks + 1
  /\ \/ /\ SameAddress(msg[m].from, who)
        /\ own' = [own EXCEPT ![m] = Marked(@, op)]
        /\ UNCHANGED rcpt
     \/ /\ ~SameAddress(msg[m].from, who)
        /\ rcpt' = [rcpt EXCEPT ![m][who] = Marked(@, op)]
        /\ UNCHANGED own
  /\ UNCHANGED <<clock, last, msg, req, disturbed>>

-----------------------------------------------------------------------------
(* Folders: what a person lists, and what the folder list counts. *)

\* The address e is the sender, or a recipient, with all marks in have and none in lack.
AsSender(m, e, have, lack) ==
  msg[m].from = e /\ have \subseteq own[m] /\ lack \cap own[m] = {}
AsRecipient(m, e, have, lack) ==
  e \in DOMAIN rcpt[m] /\ have \subseteq rcpt[m][e] /\ lack \cap rcpt[m][e] = {}

\* The mails in a folder of p that lack the marks in no too: buildFolderWhere with the
\* condition that resolveFolderCounts adds to each of its alternatives.  Both look for
\* p's address in lower case, among senders too.
Selected(folder, p, no) ==
  LET e == LowerCase[p]
  IN {m \in Messages :
       \/ folder = "inbox" /\ msg[m].st = "SENT" /\ msg[m].from # e
          /\ AsRecipient(m, e, {}, {"archived", "trashed"} \cup no)
       \/ folder = "sent" /\ msg[m].st = "SENT" /\ AsSender(m, e, {}, {"trashed"} \cup no)
       \/ folder = "drafts" /\ msg[m].st = "DRAFT" /\ AsSender(m, e, {}, {"trashed"} \cup no)
       \/ folder = "starred" /\ (\/ AsSender(m, e, {"starred"}, {"trashed"} \cup no)
                                \/ AsRecipient(m, e, {"starred"}, {"trashed"} \cup no))
       \/ folder = "trash" /\ (\/ AsSender(m, e, {"trashed"}, no)
                              \/ AsRecipient(m, e, {"trashed"}, no))
       \/ folder = "all" /\ (msg[m].from = e \/ e \in DOMAIN rcpt[m])}

Folder(folder, p) == Selected(folder, p, {})

CountedUnread(folder, p) ==
  IF folder \in {"sent", "drafts"} THEN {} ELSE Selected(folder, p, {"read"})

\* The marks that serializeMessage shows to p.
Shown(m, p) ==
  IF SameAddress(msg[m].from, p) THEN own[m]
  ELSE IF LowerCase[p] \in DOMAIN rcpt[m] THEN rcpt[m][LowerCase[p]] ELSE {}

-----------------------------------------------------------------------------
MailStep(r) ==
  \/ \E c \in Conversations, new \in BOOLEAN : ResolveConversation(r, c, new)
  \/ \E m \in Messages, who \in People, text \in Texts,
        R \in SUBSET Normalized(Addresses) :
       \/ CreateDraft(r, m, who, text, R)
       \/ CreateAndSend(r, m, who, text, R)
       \/ \E c \in Conversations : Reply(r, m, c, who, text, R)
  \/ \E m \in Messages, pc \in {"edit", "send"} : Check(r, m, pc)
  \/ \E text \in Texts : UpdateDraft(r, text)
  \/ SendDraft(r) \/ StampConversation(r) \/ StopRequest(r)

MailNext ==
  \/ \E r \in Requests : MailStep(r)
  \/ \E m \in Messages, who \in People,
        op \in {"read", "star", "unstar", "archive", "trash", "restore"} :
       UpdateCurrentState(m, who, op)

MailSpec == MailInit /\ [][MailNext]_mailVars

-----------------------------------------------------------------------------
(* Properties. *)

Readers(m) == {p \in DOMAIN rcpt[m] : "read" \in rcpt[m][p]}

\* Once a mail is sent its text, its recipients and the moment of sending
\* stand and nobody's read mark is lost, but for an edit or a second send that
\* had checked the draft before it was sent (mail.service.ts:163, :200).
SentMailStands ==
  [][\A m \in Messages :
       msg[m].st = "SENT" =>
         \/ \E r \in Requests : req[r].m = m /\ req[r].raced /\ req'[r] # req[r]
         \/ /\ msg'[m] = msg[m]
            /\ DOMAIN rcpt'[m] = DOMAIN rcpt[m]
            /\ Readers(m) \subseteq Readers(m)']_mailVars

\* A conversation whose requests are over is stamped with its newest message,
\* unless two sends crossed or one died before its stamp
\* (mail.service.ts:211, :289): the folder lists order conversations by it.
StampIsNewest ==
  \A c \in Conversations \ disturbed, m \in Messages :
    /\ msg[m].st = "SENT"
    /\ msg[m].conv = c
    /\ Stamping(c) = {}
    => msg[m].sentAt <= last[c]

\* Mails sent to p by an account that spells p's address with capitals: p itself, if
\* that is how p's account spells it.  The lists take its sender for another person,
\* the marks and what is shown take it for p (mail.service.ts:940, :1031).
Respelled(p) ==
  {m \in Messages : /\ msg[m] # NoMail
                    /\ msg[m].from # LowerCase[p] /\ SameAddress(msg[m].from, p)}

\* What the four places of a mailbox list is apart, a starred mail is not in the trash,
\* and no sent mail that a person lists is out of every folder unless that person
\* archived it.  The unread count beside a folder is the number of the mails in it that
\* are shown as unread (mail.service.ts:668, :779, :924), those from another spelling
\* of the person's address apart.
\* A mail to oneself has marks in two rows: the three queries read either one.
FoldersAgree ==
  \A p \in People :
    LET inbox == Folder("inbox", p)
        sent == Folder("sent", p)
        trash == Folder("trash", p)
    IN /\ inbox \cap sent = {} /\ Folder("drafts", p) \cap (inbox \cup sent) = {}
       /\ trash \cap (inbox \cup sent \cup Folder("drafts", p) \cup Folder("starred", p)) = {}
       /\ \A m \in Folder("all", p) \ (inbox \cup sent \cup trash) :
            msg[m].st = "DRAFT" \/ "archived" \in Shown(m, p)
       /\ \A f \in {"inbox", "starred", "trash"} :
            CountedUnread(f, p) \ Respelled(p)
              = {m \in Folder(f, p) \ Respelled(p) : "read" \notin Shown(m, p)}
=============================================================================
