--------------------------- MODULE ReviewerConsole ---------------------------
(***************************************************************************)
(* The reviewer's console (frontend/reviewer.py) in front of the review    *)
(* queue.  Streamlit runs its script from the top on every interaction: it *)
(* fetches the queue, shows the first item, draws the checkboxes, and if   *)
(* the button was what was clicked, submits for the item it has just       *)
(* fetched.  The checkboxes are keyed by their label, so their ticks       *)
(* outlive a run and the item they were made for.                          *)
(*                                                                         *)
(* A run of the script is one step up to the request it ends with: nothing *)
(* it does before it fetches depends on the queue.  The reviewer is        *)
(* careful: the button is clicked only while the screen shows the item the *)
(* ticks were made for.  A submit is served by one of the backend's        *)
(* workers, the Reviewers of ReviewQueue.                                  *)
(***************************************************************************)
EXTENDS ReviewQueue, Sequences, SequencesExt

CONSTANTS
    Consoles,   \* browser sessions of the console
    NoItem      \* no item of the queue

ASSUME ConsoleAssumption == NoItem \notin Requests

VARIABLES
    session,    \* "out", "in", "awaiting" an answer, or "recorded" is under way to it
    shown,      \* the item on the screen
    formed,     \* the item the ticks in the checkboxes were made for
    call,       \* by worker, the submit it serves
    line,       \* the requests in the order of enqueued_ts
    filed       \* history: the item a stored judgement's labels were made for

screen == <<shown, formed>>
consoleVars == <<session, screen, call, line, filed>>
allVars == <<vars, consoleVars>>

NoCall == [item |-> NoItem, from |-> NoItem, by |-> NoItem]

ConsoleInit ==
    /\ Init
    /\ session = [c \in Consoles |-> "out"]
    /\ shown = [c \in Consoles |-> NoItem]
    /\ formed = [c \in Consoles |-> NoItem]
    /\ call = [w \in Reviewers |-> NoCall]
    /\ line = <<>>
    /\ filed = [r \in Requests |-> NoItem]

-----------------------------------------------------------------------------
\* The script.

\* /review/pending: open items, the one enqueued first on top.
Waiting == {i \in 1..Len(line) : status[line[i]] \in Open}

\* Mutant: the newest item on top.
TopNewest ==
    IF Waiting = {} THEN NoItem ELSE line[CHOOSE i \in Waiting : \A j \in Waiting : j <= i]

Top == IF Waiting = {} THEN NoItem ELSE line[CHOOSE i \in Waiting : \A j \in Waiting : i <= j]

\* The item r is shown.  Checkboxes that are not drawn forget their ticks.
Shows(c, r, ticks) ==
    /\ shown' = [shown EXCEPT ![c] = r]
    /\ formed' = [formed EXCEPT ![c] = IF r = NoItem THEN NoItem ELSE ticks]

\* A run that is not a click on the button, with these ticks.  A 401 takes the token
\* away, a 429 or an error does not; neither draws the item.
Runs(c, ticks) ==
    /\ \/ session' = [session EXCEPT ![c] = "in"] /\ Shows(c, Top, ticks)
       \/ \E s \in {"in", "out"} :
            session' = [session EXCEPT ![c] = s] /\ Shows(c, NoItem, ticks)
    /\ UNCHANGED <<vars, call, line, filed>>

\* /review/login: a token, and the script runs again.
SignIn(c) == session[c] = "out" /\ Runs(c, formed[c])

\* The reviewer makes up the labels of the item on the screen: a tick is a run.
Tick(c) == session[c] = "in" /\ shown[c] # NoItem /\ Runs(c, shown[c])

\* Any other interaction.
Refresh(c) == session[c] = "in" /\ Runs(c, formed[c])

\* Recorded: the ticks are popped and the script runs again.
HearRecorded(c) == session[c] = "recorded" /\ Runs(c, NoItem)

\* "Submit review": the list is fetched anew and what is on top of it is submitted,
\* with the checkboxes as they are.  (A run that fails to fetch is a Refresh.)
Click(c, w) ==
    /\ session[c] = "in"
    /\ shown[c] # NoItem /\ formed[c] = shown[c]
    /\ Top # NoItem
    /\ call[w] = NoCall
    /\ Shows(c, Top, formed[c])
    /\ call' = [call EXCEPT ![w] = [item |-> Top, from |-> formed[c], by |-> c]]
    /\ session' = [session EXCEPT ![c] = "awaiting"]
    /\ UNCHANGED <<vars, line, filed>>

\* A refusal, an error or the client's timeout, whether or not the submit is or will be
\* recorded: the screen and the ticks stay as they are.
HearFailure(c) ==
    /\ session[c] \in {"awaiting", "recorded"}
    /\ session' = [session EXCEPT ![c] = "in"]
    /\ call' = [w \in Reviewers |-> IF call[w].by = c THEN [call[w] EXCEPT !.by = NoItem]
                                    ELSE call[w]]
    /\ UNCHANGED <<vars, screen, line, filed>>

-----------------------------------------------------------------------------
\* The backend's side of a submit.

Ends(w) == call' = [call EXCEPT ![w] = NoCall]

\* Before the row is looked for: a session that ended, a rate limit.
Refuse(w) ==
    /\ call[w] # NoCall /\ Held(w) = {}
    /\ Ends(w)
    /\ UNCHANGED <<vars, session, screen, line, filed>>

Lock(w) ==
    /\ call[w] # NoCall
    /\ SubmitLocks(w, call[w].item)
    /\ UNCHANGED consoleVars

Claim(w) ==
    /\ call[w] # NoCall
    /\ SubmitClaims(w, call[w].item)
    /\ filed' = [filed EXCEPT ![call[w].item] = call[w].from]
    /\ session' = [c \in Consoles |-> IF call[w].by = c THEN "recorded" ELSE session[c]]
    /\ Ends(w)
    /\ UNCHANGED <<screen, line>>

RollBack(w) ==
    /\ SubmitRollsBack(w)
    /\ Ends(w)
    /\ UNCHANGED <<session, screen, line, filed>>

\* The other writers.  enqueued_ts is read before the insert (now() is the start of the
\* transaction, a report's is older), so a review that is opened later may stand ahead.
Others ==
    /\ \/ Backend \/ (\E w \in Rescorers : DrainOnce(w)) \/ Purge \/ DayPasses
    /\ LET new == {r \in Requests : status[r] = "none" /\ status'[r] # "none"} IN
       IF new = {} THEN line' = line
       ELSE \E r \in new, i \in 1..Len(line) + 1 : line' = InsertAt(line, i, r)
    /\ UNCHANGED <<session, screen, call, filed>>

Console(c) ==
    \/ SignIn(c) \/ Tick(c) \/ Refresh(c) \/ HearRecorded(c) \/ HearFailure(c)
    \/ \E w \in Reviewers : Click(c, w)

Serve(w) == Refuse(w) \/ Lock(w) \/ Claim(w) \/ RollBack(w)

ConsoleNext ==
    \/ \E c \in Consoles : Console(c)
    \/ \E w \in Reviewers : Serve(w)
    \/ Others

ConsoleSpec == ConsoleInit /\ [][ConsoleNext]_allVars

-----------------------------------------------------------------------------
(* Properties                                                              *)

\* Labels are stored for another item than they were made for only when that item has
\* left the queue or the other one stands ahead of it: while it is on top, nothing that is
\* enqueued behind it, re-scored or purged moves it (frontend/reviewer.py:213, every run
\* fetches the list anew; backend/review_api.py:193-194).
StrayFromTop ==
    \A r \in Requests :
        filed[r] \notin {NoItem, r} =>
            \/ status[filed[r]] \notin Open
            \/ \E i, j \in 1..Len(line) : i < j /\ line[i] = r /\ line[j] = filed[r]

\* "so the string being labelled is byte-identical to the string the classifier scored"
\* (frontend/reviewer.py:11-12): the labels of a stored judgement were made for the item
\* they are stored with.  The code does not keep this promise: see the README.
LabelledAsShown == \A r \in Requests : filed[r] \in {NoItem, r}
=============================================================================
