--------------------------- MODULE AlertContacts ---------------------------
(***************************************************************************)
(* frontend api/alerts/register: contacts for alerts in one JSON file that *)
(* every request reads, changes and writes back, without a lock. Writing   *)
(* truncates the file first: in between, a reader finds what no JSON is,   *)
(* and takes it for an empty list.                                         *)
(***************************************************************************)
EXTENDS Integers, Sequences

CONSTANTS
  Subscribers,     \* the wallets that register a contact
  ContactDetails,  \* email addresses and Farcaster names
  PostRequests     \* bound: requests the server handles at a time

VARIABLES
  contactsFile,   \* the contacts in the file, or {} when it holds no JSON: a set of one
  posts,          \* posts[r]: what request r is at, and its copy of the contacts
  registeredAs,   \* the contact each wallet was last told it had registered
  disturbed       \* two requests overlapped, or the server crashed or failed to write

contactsVars == <<contactsFile, posts, registeredAs, disturbed>>

Record == [wallet : Subscribers, contact : ContactDetails]
NoPost == [at |-> "idle", record |-> {}, contacts |-> << >>]

\* readDB: whatever cannot be read is an empty list.
ReadDB == IF contactsFile = {} THEN << >> ELSE CHOOSE c \in contactsFile : TRUE

Active(r) == posts[r].at # "idle"

\* The request is valid: a wallet, and an email address or a name of the right form.
\* (Others are answered 400 and change nothing.) It reads the file.
ReceivePost(r) ==
  /\ ~Active(r)
  /\ \E record \in Record :
       posts' = [posts EXCEPT ![r] =
                   [at |-> "read", record |-> {record}, contacts |-> ReadDB]]
  /\ disturbed' = (disturbed \/ \E other \in PostRequests : Active(other))
  /\ UNCHANGED <<contactsFile, registeredAs>>

\* Mutant of Upserted: every record is pushed, and the older one found first.
UpsertedPush(contacts, record) == Append(contacts, record)

\* The record of the wallet is replaced, or a new one added.
Upserted(contacts, record) ==
  IF \E k \in DOMAIN contacts : contacts[k].wallet = record.wallet
  THEN [k \in DOMAIN contacts |->
          IF contacts[k].wallet = record.wallet THEN record ELSE contacts[k]]
  ELSE Append(contacts, record)

\* writeDB opens the file, which empties it.
BeginWrite(r) ==
  /\ posts[r].at = "read"
  /\ posts' = [posts EXCEPT ![r].at = "writing"]
  /\ contactsFile' = {}
  /\ UNCHANGED <<registeredAs, disturbed>>

\* The file is written and the request answered 200.
EndWrite(r) ==
  /\ posts[r].at = "writing"
  /\ \E record \in posts[r].record :
       /\ contactsFile' = {Upserted(posts[r].contacts, record)}
       /\ registeredAs' = [registeredAs EXCEPT ![record.wallet] = {record.contact}]
  /\ posts' = [posts EXCEPT ![r] = NoPost]
  /\ UNCHANGED disturbed

\* "Storage error", before the file is opened or after: the answer is 500.
WriteFails(r) ==
  /\ Active(r)
  /\ posts' = [posts EXCEPT ![r] = NoPost]
  /\ disturbed' = TRUE
  /\ UNCHANGED <<contactsFile, registeredAs>>

\* The server goes down, with every request.
ServerCrash ==
  /\ \E r \in PostRequests : Active(r)
  /\ posts' = [r \in PostRequests |-> NoPost]
  /\ disturbed' = TRUE
  /\ UNCHANGED <<contactsFile, registeredAs>>

\* GET finds the first record of the wallet.
Find(wallet) ==
  LET contacts == ReadDB
      mine == {k \in DOMAIN contacts : contacts[k].wallet = wallet}
  IN {contacts[k].contact : k \in {k \in mine : \A l \in mine : k <= l}}

ContactsInit ==
  /\ contactsFile = {}
  /\ posts = [r \in PostRequests |-> NoPost]
  /\ registeredAs = [w \in Subscribers |-> {}]
  /\ disturbed = FALSE

ContactsNext ==
  \/ \E r \in PostRequests :
       ReceivePost(r) \/ BeginWrite(r) \/ EndWrite(r) \/ WriteFails(r)
  \/ ServerCrash

ContactsSpec == ContactsInit /\ [][ContactsNext]_contactsVars
-----------------------------------------------------------------------------
\* A wallet that was told its contact is registered has that very contact in the
\* file, and one that was told nothing has none, as long as no two requests ever
\* overlapped and none failed: either costs other wallets their alerts, and none
\* is told.
ContactsKept ==
  (~disturbed /\ \A r \in PostRequests : ~Active(r)) =>
    \A w \in Subscribers : Find(w) = registeredAs[w]
=============================================================================
