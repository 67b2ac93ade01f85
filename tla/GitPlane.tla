-------------------------------- MODULE GitPlane --------------------------------
(***************************************************************************)
(* The smart-HTTP git plane of the server                                  *)
(* (crates/mmcp-server/src/routes/git_http.rs).  A client reads the tip of *)
(* a group (info/refs), then posts a push, or a fetch.  The handler starts *)
(* a pump, which copies the request into a bounded pipe, and a blocking    *)
(* task, which serves from that pipe into another that is the body of the  *)
(* response; then it returns.  The write lock of a group goes with the     *)
(* blocking task.                                                          *)
(*                                                                         *)
(* A branch is the sequence of the pushes it has.                          *)
(***************************************************************************)
EXTENDS Naturals, Sequences, SequencesExt

CONSTANTS
  Clients,
  Posts,     \* Posts[c]: [group, service, size, answer]
  Hosted,    \* the groups that have a row
  Unlocked,      \* nobody has the lock
  PipeSize   \* pieces a pipe has room for

ASSUME GitAssumption == PipeSize \in Nat \ {0} /\ Unlocked \notin Clients

VARIABLES
  branch,    \* branch[g]
  writer,    \* writer[g]: the client whose push has the lock of g
  line,      \* line[g]: the clients that wait for it
  post,      \* post[c]: how far the request of c is
  known,     \* known[c]: the tip that was advertised to c, what its push extends
  unsent,    \* unsent[c]: pieces c has yet to send
  up, down,  \* up[c], down[c]: the pieces in the two pipes
  unread,    \* unread[c]: pieces the server has yet to write
  here,      \* here[c]: whether c is still connected
  checked,   \* checked[c]: the tip the server compared with
  accepted   \* accepted[g]: history: the pushes the server accepted

gitVars == <<branch, writer, line, post, known, unsent, up, down, unread, here, checked, accepted>>

Push(c) == Posts[c].service = "receive"
Group(c) == Posts[c].group

GitInit ==
  /\ branch = [g \in Hosted |-> <<>>]
  /\ writer = [g \in Hosted |-> Unlocked]
  /\ line = [g \in Hosted |-> <<>>]
  /\ post = [c \in Clients |-> "start"]
  /\ known = [c \in Clients |-> <<>>]
  /\ unsent = [c \in Clients |-> Posts[c].size]
  /\ up = [c \in Clients |-> 0]
  /\ down = [c \in Clients |-> 0]
  /\ unread = [c \in Clients |-> Posts[c].answer]
  /\ here = [c \in Clients |-> TRUE]
  /\ checked = [c \in Clients |-> <<>>]
  /\ accepted = [g \in Hosted |-> {}]

GitTypeOK ==
  /\ branch \in [Hosted -> Seq(Clients)]
  /\ writer \in [Hosted -> Clients \union {Unlocked}]
  /\ line \in [Hosted -> Seq(Clients)]
  /\ post \in [Clients -> {"start", "asked", "queued", "reading", "answering", "done"}]
  /\ \A c \in Clients : up[c] \in 0..PipeSize /\ down[c] \in 0..PipeSize
  /\ here \in [Clients -> BOOLEAN]

Phase(c, s) == post' = [post EXCEPT ![c] = s]

\* Whether the credential of a request holds: a bearer token may expire
\* between two requests, and the push token is whatever the client presents.
Admitted(c) == {FALSE, Group(c) \in Hosted}

\* info_refs: the credential first, then the group, then the tip.
Advertise(c) ==
  /\ post[c] = "start" /\ here[c]
  /\ \E admitted \in Admitted(c) :
       IF admitted
       THEN Phase(c, "asked") /\ known' = [known EXCEPT ![c] = branch[Group(c)]]
       ELSE Phase(c, "done") /\ UNCHANGED known
  /\ UNCHANGED <<branch, writer, line, unsent, up, down, unread, here, checked, accepted>>

\* The same checks again; then receive_pack queues for the lock of the group,
\* and upload_pack takes none.
Accept(c) ==
  /\ post[c] = "asked" /\ here[c]
  /\ \E admitted \in Admitted(c) :
       /\ Phase(c, IF ~admitted THEN "done" ELSE IF Push(c) THEN "queued" ELSE "reading")
       /\ line' = IF admitted /\ Push(c) THEN [line EXCEPT ![Group(c)] = Append(@, c)] ELSE line
  /\ UNCHANGED <<branch, writer, known, unsent, up, down, unread, here, checked, accepted>>

\* Faulty variant: the lock goes with the handler, which returns at once.
LockRepoBriefly(c) ==
  /\ post[c] = "queued" /\ writer[Group(c)] = Unlocked /\ Head(line[Group(c)]) = c
  /\ line' = [line EXCEPT ![Group(c)] = Tail(@)]
  /\ checked' = [checked EXCEPT ![c] = branch[Group(c)]]
  /\ Phase(c, "reading")
  /\ UNCHANGED <<branch, writer, known, unsent, up, down, unread, here, accepted>>

LockRepo(c) ==
  /\ post[c] = "queued" /\ writer[Group(c)] = Unlocked /\ Head(line[Group(c)]) = c
  /\ writer' = [writer EXCEPT ![Group(c)] = c]
  /\ line' = [line EXCEPT ![Group(c)] = Tail(@)]
  /\ checked' = [checked EXCEPT ![c] = branch[Group(c)]]
  /\ Phase(c, "reading")
  /\ UNCHANGED <<branch, known, unsent, up, down, unread, here, accepted>>

\* The pump.  It ends with the request, or with the connection.
\* Faulty variant: an aborted request leaves the pipe open.
PumpHangs(c) == unsent[c] = 0
PumpEnded(c) == unsent[c] = 0 \/ ~here[c]
PumpPiece(c) ==
  /\ post[c] = "reading" /\ unsent[c] > 0 /\ here[c] /\ up[c] < PipeSize
  /\ unsent' = [unsent EXCEPT ![c] = @ - 1]
  /\ up' = [up EXCEPT ![c] = @ + 1]
  /\ UNCHANGED <<branch, writer, line, post, known, down, unread, here, checked, accepted>>

ServeReads(c) ==
  /\ post[c] = "reading" /\ up[c] > 0
  /\ up' = [up EXCEPT ![c] = @ - 1]
  /\ UNCHANGED <<branch, writer, line, post, known, unsent, down, unread, here, checked, accepted>>

\* gix has read everything: a push moves the branch, if it was sent in full and
\* the tip is still the one the client knew.  It compares with the tip it read
\* when it began; only the lock keeps that one current.
ServeUpdates(c) ==
  /\ post[c] = "reading" /\ up[c] = 0 /\ PumpEnded(c)
  /\ IF Push(c) /\ unsent[c] = 0 /\ checked[c] = known[c]
     THEN /\ branch' = [branch EXCEPT ![Group(c)] = Append(known[c], c)]
          /\ accepted' = [accepted EXCEPT ![Group(c)] = @ \union {c}]
     ELSE UNCHANGED <<branch, accepted>>
  /\ Phase(c, "answering")
  /\ UNCHANGED <<writer, line, known, unsent, up, down, unread, here, checked>>

\* The response; nobody reads it once the client has gone, and writing fails.
ServeWrites(c) ==
  /\ post[c] = "answering" /\ unread[c] > 0 /\ here[c] /\ down[c] < PipeSize
  /\ unread' = [unread EXCEPT ![c] = @ - 1]
  /\ down' = [down EXCEPT ![c] = @ + 1]
  /\ UNCHANGED <<branch, writer, line, post, known, unsent, up, here, checked, accepted>>

ClientReads(c) ==
  /\ down[c] > 0 /\ here[c]
  /\ down' = [down EXCEPT ![c] = @ - 1]
  /\ UNCHANGED <<branch, writer, line, post, known, unsent, up, unread, here, checked, accepted>>

\* The blocking task ends; only now does the lock come free.
ServeEnds(c) ==
  /\ post[c] = "answering" /\ (unread[c] = 0 \/ ~here[c])
  /\ writer' = IF Push(c) THEN [writer EXCEPT ![Group(c)] = Unlocked] ELSE writer
  /\ Phase(c, "done")
  /\ UNCHANGED <<branch, line, known, unsent, up, down, unread, here, checked, accepted>>

\* A client goes away; the handler of one that is still queued goes with it.
Vanish(c) ==
  /\ here[c] /\ post[c] # "done"
  /\ here' = [here EXCEPT ![c] = FALSE]
  /\ IF post[c] \in {"start", "asked", "queued"} THEN Phase(c, "done") ELSE UNCHANGED post
  /\ line' = [g \in Hosted |-> SelectSeq(line[g], LAMBDA o : o # c)]
  /\ UNCHANGED <<branch, writer, known, unsent, up, down, unread, checked, accepted>>

\* What the server does by itself, and what it waits for a client to do: it sets
\* no time limit on a request, a piece of it or the reading of a response.
ServerStep(c) ==
  LockRepo(c) \/ ServeReads(c) \/ ServeUpdates(c) \/ ServeWrites(c) \/ ServeEnds(c)
ClientStep(c) == Advertise(c) \/ Accept(c) \/ PumpPiece(c) \/ ClientReads(c) \/ Vanish(c)
GitNext == \E c \in Clients : ServerStep(c) \/ ClientStep(c)

GitSpec == GitInit /\ [][GitNext]_gitVars

-----------------------------------------------------------------------------
(* Properties *)

\* No push that was accepted is ever dropped by a later one, although clients
\* learn the tip in another request than the one that pushes.
AcceptedPushesStay ==
  \A g \in Hosted : accepted[g] \subseteq ToSet(branch[g])

\* A client that does not fall silent: while the server waits for a piece of its
\* request or for room in the pipe, it goes on or its connection ends.  Nothing
\* in the code makes it do so, which is why no specification assumes it.
GoesOn(c) == WF_gitVars(PumpPiece(c) \/ ClientReads(c))

\* A push that gets in line ends, and the lock of its group with it, unless a
\* push to that group falls silent with its connection open: whoever vanishes in
\* the middle, in line or while it is answered, and whatever the clients of
\* other groups and those that fetch do.
PushesEnd ==
  \A c \in Clients :
    (\A d \in Clients : Push(d) /\ Group(d) = Group(c) => GoesOn(d))
      => ((post[c] = "queued") ~> (post[c] = "done"))
=============================================================================
