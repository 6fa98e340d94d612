---------------------------- MODULE DeviceReads ----------------------------
(***************************************************************************)
(* A page of the dashboard that reads devices while scan workers store     *)
(* them (src/internal/store/queries.go, behind handlers_read.go).  Neither *)
(* request has a transaction: GetDevice takes six statements, ListDevices  *)
(* a count and a page, and whole upserts may commit between any two.       *)
(***************************************************************************)
EXTENDS DeviceStore, Sequences

CONSTANT PageLimit      \* rows of one page of the unfiltered device list

ASSUME ReadsAssumption == PageLimit \in Nat \ {0}

VARIABLE reader         \* the request: which device or page, the answers so far, and
                        \* (history) the versions of the device since it began

rvars == <<vars, reader>>

NoRequest == [pc |-> "idle", id |-> 0, offset |-> 0, got |-> <<>>, since |-> <<>>]

\* What each statement of GetDevice reads: hardware and accounts go with the
\* software in one token.
VersionOf(row, children) ==
  [row |-> row, os |-> children.os, hardware |-> children.sw,
   interfaces |-> children.macs, software |-> children.sw, users |-> children.sw]

Version(id) == VersionOf(rows[id], kids[id])

\* Mutant: the child tables first, the device last.
DetailRowLast == <<"os", "hardware", "interfaces", "software", "users", "row">>

Detail == <<"row", "os", "hardware", "interfaces", "software", "users">>

\* Mutant: the page first, the total after it.
ListingRowsFirst == <<"items", "total">>

Listing == <<"total", "items">>

\* Rows of one page, whichever device was seen last.
RowsFrom(offset) ==
  LET rest == Cardinality(Exists) - offset
  IN IF rest < 0 THEN 0 ELSE IF rest < PageLimit THEN rest ELSE PageLimit

ListAnswer(offset) == [total |-> Cardinality(Exists), items |-> RowsFrom(offset)]

RInit == Init /\ reader = NoRequest

\* GET /api/devices/{id}: a device without a row is answered 404.
OpenDevice ==
  /\ reader.pc = "idle"
  /\ \E id \in Exists :
       reader' = [NoRequest EXCEPT !.pc = "detail", !.id = id, !.since = <<Version(id)>>,
                                   !.got = <<Version(id)[Detail[1]]>>]

ReadNext ==
  /\ reader.pc = "detail"
  /\ LET got == Append(reader.got, Version(reader.id)[Detail[Len(reader.got) + 1]])
     IN reader' = [reader EXCEPT !.got = got, !.pc = IF Len(got) = 6 THEN "device" ELSE @]

\* GET /api/devices with an offset the pager has reached: 0, or a step from the
\* page on show when its total allows that step.
OpenList(offset) ==
  reader' = [NoRequest EXCEPT !.pc = "list", !.offset = offset,
                              !.got = <<ListAnswer(offset)[Listing[1]]>>]

FirstPage == reader.pc = "idle" /\ OpenList(0)

ReadList ==
  /\ reader.pc = "list"
  /\ reader' = [reader EXCEPT !.pc = "pager",
                              !.got = Append(@, ListAnswer(reader.offset)[Listing[2]])]

Answered(s) == reader.got[CHOOSE i \in 1..2 : Listing[i] = s]

NextPage ==
  /\ reader.pc = "pager" /\ reader.offset + PageLimit < Answered("total")
  /\ OpenList(reader.offset + PageLimit)

PrevPage ==
  /\ reader.pc = "pager" /\ reader.offset # 0
  /\ OpenList(IF reader.offset < PageLimit THEN 0 ELSE reader.offset - PageLimit)

\* A failed statement fails the request; a page that is left is forgotten.
Close == reader.pc # "idle" /\ reader' = NoRequest

Read == OpenDevice \/ ReadNext \/ FirstPage \/ ReadList \/ NextPage \/ PrevPage \/ Close

\* The store's steps; the history follows the device that is being read.
Stored ==
  LET new == VersionOf(rows'[reader.id], kids'[reader.id])
  IN reader' = IF reader.pc = "detail" /\ new # Version(reader.id)
               THEN [reader EXCEPT !.since = Append(@, new)]
               ELSE reader

RNext ==
  \/ Next /\ Stored
  \/ Read /\ UNCHANGED vars

RSpec == RInit /\ [][RNext]_rvars

-----------------------------------------------------------------------------
Promised(total, offset) == IF total - offset < PageLimit THEN total - offset ELSE PageLimit

\* What a request has so far, against the tables as they are now.
ReaderInv ==
  /\ reader.pc \in {"idle", "detail", "device", "list", "pager"}
  /\ reader.pc \in {"detail", "device"} =>
       /\ Len(reader.since) > 0 /\ reader.got[1] = reader.since[1].row
       /\ \A i \in 1..Len(reader.got) : \E w \in 1..Len(reader.since) :
            reader.got[i] = reader.since[w][Detail[i]]
  /\ reader.pc = "device" => Len(reader.got) = 6
  /\ reader.pc = "detail" =>
       /\ reader.id \in Exists /\ Len(reader.got) \in 1..5
       /\ reader.since[Len(reader.since)] = Version(reader.id)
  /\ reader.pc \in {"list", "pager"} =>
       /\ reader.got[1] \in 0..Cardinality(Exists)
       /\ reader.offset # 0 => reader.offset < reader.got[1]
       /\ Len(reader.got) = IF reader.pc = "list" THEN 1 ELSE 2
  /\ reader.pc = "pager" =>
       reader.got[2] \in Nat /\ reader.got[2] >= Promised(reader.got[1], reader.offset)

\* A device page is put together from up to six states of the tables, but what it
\* shows below the device's own row was stored with that row or after it: a row
\* that says who collected it last never stands over an older inventory.
InventoryNotBehindRow ==
  reader.pc = "device" =>
    LET at == CHOOSE i \in 1..6 : Detail[i] = "row"
    IN \E v \in DOMAIN reader.since :
         /\ reader.got[at] = reader.since[v].row
         /\ \A i \in 1..6 : \E w \in v..Len(reader.since) :
              reader.got[i] = reader.since[w][Detail[i]]

\* The pager is not betrayed by devices that appear meanwhile: a page has at least
\* the rows its total promises, and a page that Next leads to is never empty.
PageNotShort ==
  reader.pc = "pager" =>
    /\ Answered("items") >= Promised(Answered("total"), reader.offset)
    /\ reader.offset > 0 => Answered("items") > 0
=============================================================================
