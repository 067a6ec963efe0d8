---------------------------- MODULE AddressSpace ----------------------------
(***************************************************************************)
(* What the MMU promises a guest that writes page tables: an access sees   *)
(* some descriptor the page has had since it was last flushed, a write     *)
(* succeeds only through one marked modified, and PTEST reports what the   *)
(* tables say now.  No cache appears.                                      *)
(***************************************************************************)
EXTENDS PageTables

VARIABLES
  tables,   \* the guest's page tables
  roots,    \* SRP (TRUE) and URP (FALSE)
  tcr, ttr,
  seen,     \* descriptors each page has had, per mode, since its last flush
  last      \* the last access or PTEST and what it gave

Current(page, super) == tables[roots[super]][page]

Fresh(table, root) ==
  [p \in Pages |-> [s \in BOOLEAN |-> {table[root[s]][p]}]]

Init ==
  /\ tables \in Tables
  /\ roots \in [BOOLEAN -> Roots]
  /\ tcr \in Tcrs /\ ttr \in Ttrs
  /\ seen = Fresh(tables, roots)
  /\ last = None

\* The tables are now new: seen grows by what the current roots show of them.
Grown(table, root) ==
  [p \in Pages |-> [s \in BOOLEAN |-> seen[p][s] \cup {table[root[s]][p]}]]

SetDescriptor(root, page) ==
  /\ last' = None
  /\ tables' \in Tables
  /\ tables' = [tables EXCEPT ![root][page] = tables'[root][page]]
  /\ seen' = Grown(tables', roots)
  /\ UNCHANGED <<roots, tcr, ttr>>

SetRoot(super, root) ==
  /\ last' = None
  /\ roots' = [roots EXCEPT ![super] = root]
  /\ seen' = Grown(tables, roots')
  /\ UNCHANGED <<tables, tcr, ttr>>

SetTtr ==
  /\ last' = None
  /\ ttr' \in Ttrs
  /\ UNCHANGED <<tables, roots, tcr, seen>>

\* PFLUSH and PFLUSHN: the latter keeps global translations.
Kept(page, super, global) == IF global THEN {} ELSE {d \in seen[page][super] : d.g}
FlushPage(page, super, global) ==
  /\ last' = None
  /\ seen' = [seen EXCEPT ![page][super] = {Current(page, super)} \cup Kept(page, super, global)]
  /\ UNCHANGED <<tables, roots, tcr, ttr>>

FlushAll(global) ==
  /\ last' = None
  /\ seen' = [p \in Pages |-> [s \in BOOLEAN |-> {Current(p, s)} \cup Kept(p, s, global)]]
  /\ UNCHANGED <<tables, roots, tcr, ttr>>

SetTcr ==
  /\ last' = None
  /\ tcr' \in Tcrs
  /\ seen' = Fresh(tables, roots)
  /\ UNCHANGED <<tables, roots, ttr>>

\* Both root registers are cleared to root, translation and its registers are off.
Reset(root) ==
  /\ last' = None
  /\ roots' = [s \in BOOLEAN |-> root]
  /\ tcr' = [enabled |-> FALSE, dwo |-> FALSE]
  /\ ttr' = [t \in Types |-> [p \in Pages |-> [s \in BOOLEAN |-> "noMatch"]]]
  /\ seen' = Fresh(tables, roots')
  /\ UNCHANGED tables

\* A table search: the page's descriptor now, marked modified by a write.
Search(page, super, write) ==
  /\ tables' = [tables EXCEPT ![roots[super]][page] = Searched(@, super, write)]
  /\ seen' = Grown(tables', roots)

\* An operation of this kind on the page is done; last.out is what it gave.
Report(kind, page, super) ==
  /\ last' # None
  /\ last' = [kind |-> kind, page |-> page, super |-> super, out |-> last'.out]

\* The outcome of translating page, from a remembered descriptor or a search.
Translate(page, super, write, out) ==
  \/ /\ \E d \in seen[page][super] :
          /\ out = Outcome(d, super, write)
          /\ out # Fault /\ write => d.m
     /\ UNCHANGED <<tables, seen>>
  \/ /\ Search(page, super, write)
     /\ out = Outcome(tables'[roots[super]][page], super, write)

\* A locked cycle's read may be checked as a read: its write is checked too.
Access(kind, page, super) ==
  LET type == TypeOf(kind)
      write == Writes(kind)
      out == last'.out
  IN  /\ Report(kind, page, super)
      /\ UNCHANGED <<roots, tcr, ttr>>
      /\ IF TtrFault(ttr, tcr, type, page, super, write)
         THEN out = Fault /\ UNCHANGED <<tables, seen>>
         ELSE IF Translated(ttr, tcr, type, page, super)
         THEN \/ Translate(page, super, write, out)
              \/ kind = "rmw" /\ Translate(page, super, FALSE, out)
         ELSE out = Direct /\ UNCHANGED <<tables, seen>>

\* PLPA translates even when translation is off, unless a transparent
\* translation applies or a write is refused before that.
Plpa(type, page, super, write) ==
  /\ Report("plpa", page, super)
  /\ UNCHANGED <<roots, tcr, ttr>>
  /\ IF write /\ WriteFault(ttr, tcr, type, page, super)
     THEN last'.out = Fault /\ UNCHANGED <<tables, seen>>
     ELSE IF ttr[type][page][super] = "noMatch"
     THEN Translate(page, super, write, last'.out)
     ELSE last'.out = Direct /\ UNCHANGED <<tables, seen>>

\* PTEST flushes the page, then searches the tables.
PTest(type, page, super, write) ==
  /\ Report("ptest", page, super)
  /\ UNCHANGED <<roots, tcr, ttr>>
  /\ IF ttr[type][page][super] # "noMatch"
     THEN /\ last'.out = IF ttr[type][page][super] = "noWrite" /\ write THEN Fault ELSE Direct
          /\ seen' = [seen EXCEPT ![page][super] = {Current(page, super)}]
          /\ UNCHANGED tables
     ELSE LET d == Searched(Current(page, super), super, write)
          IN  /\ last'.out = d
              /\ tables' = [tables EXCEPT ![roots[super]][page] = d]
              /\ seen' = [Grown(tables', roots) EXCEPT ![page][super] = {d}]

Next ==
  \/ \E k \in Kinds, p \in Pages, s \in BOOLEAN : Access(k, p, s)
  \/ \E t \in Types, p \in Pages, s \in BOOLEAN, w \in BOOLEAN :
       Plpa(t, p, s, w) \/ PTest(t, p, s, w)
  \/ \E r \in Roots, p \in Pages : SetDescriptor(r, p)
  \/ \E s \in BOOLEAN, r \in Roots : SetRoot(s, r)
  \/ SetTtr \/ SetTcr
  \/ \E r \in Roots : Reset(r)
  \/ \E p \in Pages, s \in BOOLEAN, g \in BOOLEAN : FlushPage(p, s, g)
  \/ \E g \in BOOLEAN : FlushAll(g)

vars == <<tables, roots, tcr, ttr, seen, last>>
Spec == Init /\ [][Next]_vars
=============================================================================
