---------------------------- MODULE PackageQuotes ----------------------------
(***************************************************************************)
(* A quote for a travel package, and the folder that a conversion makes of *)
(* it.  Requests to select an option, to edit the quote and to convert it  *)
(* come from the sales page, the customer's link and the dashboard; each   *)
(* is a sequence of database calls, and nothing keeps them apart.  What a  *)
(* quote offers is a payload, which a selection is priced by.  A payload   *)
(* has parts (stays, flights, linked flights, transport), each with some   *)
(* options or none.  The extras of a stay are left out, and so are visas,  *)
(* which are charged for whichever is selected.                            *)
(***************************************************************************)
EXTENDS Integers, Sequences

CONSTANTS
  Payloads,  \* what a quote may offer
  Parts,     \* of a package
  Stays,     \* the parts that must be selected when they are offered
  Options,   \* to select among in a part
  None,      \* a part that is not selected
  Offered,   \* the options each payload has for each part
  Preferred, \* the option that a part comes with unless another is selected
  Requests,  \* requests at work, serving one after the other
  Breaking   \* whether requests may die and calls to the database fail

ASSUME QuoteOffers ==
  /\ Stays \subseteq Parts /\ None \notin Options
  /\ Offered \in [Payloads -> [Parts -> SUBSET Options]]
  /\ Preferred \in [Payloads -> [Parts -> Options \cup {None}]]
ASSUME QuoteFaults == Breaking \in BOOLEAN

VARIABLES
  quote,    \* the row of travel_package_quotes
  folders,  \* the rows of travel_packages made of the quote
  request,  \* what each request is about to do, with what it has read
  mishaps,  \* history: what went wrong that the properties make an exception of
  altered   \* history: parts that a refresh of the folder did not find as they were sold

quoteVars == <<quote, folders, request, mishaps, altered>>

\* A selection is the choice and the payload it was resolved with, that is priced by.
Choice == [Parts -> Options \cup {None}]
Selection == [choice : Choice, by : Payloads]
Nothing == [choice |-> "none"]
NoFolder == 0

\* Statuses are told apart as far as routes and dashboards do.
Quote == [payload : Payloads, selected : Selection \cup {Nothing}, folder : Nat,
          status : {"open", "selected", "converted", "archived"}]
\* selected_quote_snapshot of a folder
Snapshot == [payload : Payloads, selected : Selection]

Waiting == [at |-> "waiting"]
SelectRequest == [at : {"selecting"}, choice : Choice, by : Payloads]
EditRequest == [at : {"loading"}, edited : Quote]
               \cup [at : {"storing"}, edited : Quote, choice : Choice]
ConvertRequest == [at : {"inserting"}, snapshot : Snapshot]
LinkRequest == [at : {"linking"}, folder : Nat]

Mishaps == {"crossed", "stranded", "behind"}

QuoteTypes ==
  /\ quote \in Quote
  /\ folders \in Seq(Snapshot)
  /\ request \in [Requests -> {Waiting} \cup SelectRequest \cup EditRequest
                                \cup ConvertRequest \cup LinkRequest]
  /\ mishaps \subseteq Mishaps /\ altered \subseteq Parts

QuoteInit ==
  /\ quote \in [payload : Payloads, selected : {Nothing}, folder : {NoFolder}, status : {"open"}]
  /\ folders = <<>>
  /\ request = [r \in Requests |-> Waiting]
  /\ mishaps = {} /\ altered = {}

RequestIs(r, step) == request' = [request EXCEPT ![r] = step]
Note(m, happened) == mishaps' = IF happened THEN mishaps \cup {m} ELSE mishaps

-----------------------------------------------------------------------------
(* Selections, by an agent or over the customer's link *)

\* resolvePackageSelection refuses an option that is not among those of its part, and a
\* stay that was not selected; but a part without options it just leaves out.
Refused(payload, choice) ==
  \E k \in Parts :
    /\ Offered[payload][k] # {} /\ choice[k] \notin Offered[payload][k]
    /\ k \in Stays \/ choice[k] # None

\* A part other than a stay comes with its preferred option when none was selected, and
\* the selection of one without options is forgotten; that of a stay is kept.
Resolved(payload, choice) ==
  [k \in Parts |->
     IF k \in Stays THEN choice[k]
     ELSE IF Offered[payload][k] = {} THEN None
     ELSE IF choice[k] = None THEN Preferred[payload][k] ELSE choice[k]]

\* What a selection buys in a part
Bought(selection, k) ==
  IF Offered[selection.by][k] = {} THEN None ELSE selection.choice[k]

\* The quote is read, and the choice resolved.
SelectReads(r, choice) ==
  /\ request[r].at = "waiting" /\ quote.status # "archived"
  /\ ~Refused(quote.payload, choice)
  /\ RequestIs(r, [at |-> "selecting", choice |-> Resolved(quote.payload, choice),
                   by |-> quote.payload])
  /\ UNCHANGED <<quote, folders, mishaps, altered>>

\* The selection is written whatever became of the quote since.  A customer who only
\* saves leaves the status alone.
SelectWrites(r, status) ==
  /\ request[r].at = "selecting"
  /\ quote' = [quote EXCEPT !.status = status,
                 !.selected = [choice |-> request[r].choice, by |-> request[r].by]]
  /\ Note("crossed", request[r].by # quote.payload)
  /\ RequestIs(r, Waiting)
  /\ UNCHANGED <<folders, altered>>

-----------------------------------------------------------------------------
(* PATCH of a quote *)

Converting == \E r \in Requests : request[r].at \in {"inserting", "linking"}

\* Mistakes: the selection stays when the payload is replaced; only a quote that is
\* still marked as converted has its folder refreshed.
EditedWithSelection(payload, status) == [quote EXCEPT !.payload = payload, !.status = status]
RefreshesWhileConverted(q) == q.folder # NoFolder /\ q.status = "converted"

Edited(payload, status) ==
  [quote EXCEPT !.payload = payload, !.selected = Nothing, !.status = status]

Refreshes(q) == q.folder # NoFolder

\* The payload is replaced.  If the row that comes back names a folder, this is
\* refreshed; a conversion under way, or one that never linked its folder, keeps what it read.
EditWrites(r, payload, status) ==
  /\ request[r].at = "waiting"
  /\ quote' = Edited(payload, status)
  /\ RequestIs(r, IF Refreshes(quote')
                  THEN [at |-> "loading", edited |-> quote'] ELSE Waiting)
  /\ Note("behind", quote.folder = NoFolder /\ (Converting \/ folders # <<>>))
  /\ UNCHANGED <<folders, altered>>

\* rebuildConvertedPackageSnapshot: the selection of the row edited, or else of the
\* folder, is resolved with the new payload.
EditLoads(r) ==
  LET q == request[r].edited
      sold == IF q.selected # Nothing THEN q.selected ELSE folders[q.folder].selected
      now == [choice |-> Resolved(q.payload, sold.choice), by |-> q.payload]
      refused == Refused(q.payload, sold.choice)
  IN  /\ request[r].at = "loading"
      /\ RequestIs(r, IF refused THEN Waiting
                      ELSE [at |-> "storing", edited |-> q, choice |-> now.choice])
      /\ altered' = IF refused THEN altered
                    ELSE altered \cup {k \in Parts : Bought(now, k) # Bought(sold, k)}
      /\ Note("behind", refused)
      /\ UNCHANGED <<quote, folders>>

EditStores(r) ==
  LET q == request[r].edited
  IN  /\ request[r].at = "storing"
      /\ folders' = [folders EXCEPT ![q.folder] =
           [payload |-> q.payload, selected |-> [choice |-> request[r].choice, by |-> q.payload]]]
      /\ Note("behind", q.payload # quote.payload)
      /\ RequestIs(r, Waiting)
      /\ UNCHANGED <<quote, altered>>

Archive ==
  /\ quote' = [quote EXCEPT !.status = "archived"]
  /\ UNCHANGED <<folders, request, mishaps, altered>>

\* POST of shared flights: those of another quote of the group are copied into this
\* one, which may have been read long before.
ShareFlights(payload) ==
  /\ quote' = Edited(payload, quote.status)
  /\ Note("behind", Converting \/ folders # <<>>)
  /\ UNCHANGED <<folders, request, altered>>

-----------------------------------------------------------------------------
(* Conversion *)

\* A quote that names its folder is converted already; were the folder not found, the
\* unique index would refuse another.
ConvertReads(r) ==
  /\ request[r].at = "waiting" /\ quote.status # "archived"
  /\ quote.selected # Nothing /\ quote.folder = NoFolder
  /\ RequestIs(r, [at |-> "inserting",
                   snapshot |-> [payload |-> quote.payload, selected |-> quote.selected]])
  /\ UNCHANGED <<quote, folders, mishaps, altered>>

\* Mistake: no unique index on source_quote_id.
ConvertInsertsAnother(r) ==
  /\ request[r].at = "inserting"
  /\ folders' = Append(folders, request[r].snapshot)
  /\ RequestIs(r, [at |-> "linking", folder |-> Len(folders) + 1])
  /\ UNCHANGED <<quote, mishaps, altered>>

\* The unique index on source_quote_id refuses a second folder.  The parts of a folder
\* are then inserted one by one, whatever becomes of each.
ConvertInserts(r) ==
  /\ request[r].at = "inserting"
  /\ IF folders = <<>>
     THEN /\ folders' = Append(folders, request[r].snapshot)
          /\ RequestIs(r, [at |-> "linking", folder |-> Len(folders) + 1])
     ELSE UNCHANGED folders /\ RequestIs(r, Waiting)
  /\ UNCHANGED <<quote, mishaps, altered>>

ConvertLinks(r) ==
  /\ request[r].at = "linking"
  /\ quote' = [quote EXCEPT !.folder = request[r].folder, !.status = "converted"]
  /\ RequestIs(r, Waiting)
  /\ UNCHANGED <<folders, mishaps, altered>>

\* A request dies, or a call of it fails that nobody looks at the result of.
RequestDies(r) ==
  /\ Breaking /\ request[r].at # "waiting"
  /\ RequestIs(r, Waiting)
  /\ mishaps' = mishaps \cup (CASE request[r].at = "linking" -> {"stranded"}
                                [] request[r].at \in {"loading", "storing"} -> {"behind"}
                                [] OTHER -> {})
  /\ UNCHANGED <<quote, folders, altered>>

QuoteNext ==
  \/ \E r \in Requests :
       \/ \E choice \in Choice : SelectReads(r, choice)
       \/ \E status \in {"selected", quote.status} : SelectWrites(r, status)
       \/ \E payload \in Payloads, status \in {"open", quote.status} : EditWrites(r, payload, status)
       \/ EditLoads(r) \/ EditStores(r)
       \/ ConvertReads(r) \/ ConvertInserts(r) \/ ConvertLinks(r) \/ RequestDies(r)
  \/ Archive \/ \E payload \in Payloads : ShareFlights(payload)

QuoteSpec == QuoteInit /\ [][QuoteNext]_quoteVars

-----------------------------------------------------------------------------
(* Properties *)

Linking(i) == \E r \in Requests : request[r].at = "linking" /\ request[r].folder = i

\* However often and at once a quote is converted, each folder made of it is the one the
\* quote leads to, or will be; except when the request died before it could link the folder.
FolderReached ==
  \A i \in DOMAIN folders : quote.folder = i \/ Linking(i) \/ "stranded" \in mishaps

\* What was selected is priced by what the quote offers now, and in the folder by what
\* the folder says was offered; except after an edit between the reading and the writing
\* of a selection.
SelectionFits ==
  "crossed" \notin mishaps =>
    /\ quote.selected # Nothing => quote.selected.by = quote.payload
    /\ \A i \in DOMAIN folders : folders[i].selected.by = folders[i].payload

\* What a folder was sold with stays, part by part, whatever is selected afterwards and
\* however the quote is edited; unless a refresh came upon a payload that has no options
\* for the part any more, or has options for one that was sold without.
SaleKeepsChoice ==
  [][\A i \in DOMAIN folders :
       /\ i \in DOMAIN folders'
       /\ \A k \in Parts \ altered' :
            Bought(folders'[i].selected, k) = Bought(folders[i].selected, k)]_quoteVars

\* When nothing is under way, the folder of a converted quote offers what the quote does;
\* except after flights were shared, edits crossed each other or the conversion, or the
\* refresh of the folder failed.
FolderFollowsQuote ==
  /\ "behind" \notin mishaps /\ quote.folder # NoFolder
  /\ \A r \in Requests : request[r].at = "waiting"
  => folders[quote.folder].payload = quote.payload

-----------------------------------------------------------------------------
(* What carries the properties from step to step *)

AtWorkOnFolder(r) == request[r].at \in {"loading", "storing", "linking"}

\* There is one folder at most, and whoever names a folder names it.
OneFolder ==
  /\ Len(folders) <= 1 /\ quote.folder <= Len(folders)
  /\ \A r \in Requests :
       /\ AtWorkOnFolder(r) => Len(folders) = 1
       /\ request[r].at = "linking" => request[r].folder = 1
       /\ request[r].at \in {"loading", "storing"} => request[r].edited.folder = 1

\* A refresh has no selection but the folder's own, and where it will change what was
\* sold, this was noted.
RefreshesKeepChoice ==
  \A r \in Requests :
    /\ request[r].at = "loading" => request[r].edited.selected = Nothing
    /\ request[r].at = "storing" =>
         \A k \in Parts \ altered :
           Bought([choice |-> request[r].choice, by |-> request[r].edited.payload], k)
             = Bought(folders[1].selected, k)

SnapshotsFit ==
  "crossed" \notin mishaps =>
    \A r \in Requests : request[r].at = "inserting" =>
      request[r].snapshot.selected.by = request[r].snapshot.payload

Refreshing(payload) ==
  \E r \in Requests : request[r].at \in {"loading", "storing"} /\ request[r].edited.payload = payload

\* The folder offers what the quote does, or a request is about to see to it.
FolderCatchesUp ==
  "behind" \notin mishaps =>
    /\ folders # <<>> => folders[1].payload = quote.payload \/ Refreshing(quote.payload)
    /\ folders = <<>> => \A r \in Requests : request[r].at = "inserting" =>
                            request[r].snapshot.payload = quote.payload

QuoteInv ==
  /\ QuoteTypes /\ OneFolder /\ FolderReached
  /\ RefreshesKeepChoice /\ SelectionFits /\ SnapshotsFit /\ FolderCatchesUp
=============================================================================
