------------------------------- MODULE Listing -------------------------------
(***************************************************************************)
(* The text of the two listings: UserManager_FormatAllUsersAndGroups       *)
(* (ServerMng/UserManager.c) and GroupManager_FormatGroupList              *)
(* (ServerMng/GroupManager.c). HashMap_ForEach calls an appender for every *)
(* entry, in an order that only the hash function knows, until it answers  *)
(* 0. A text is a sequence of characters without its terminator; a buffer  *)
(* of n bytes holds n - 1 of them.                                         *)
(***************************************************************************)
EXTENDS Integers, Sequences

CONSTANTS
  Chars,        \* what names and separators are made of
  GroupNames,   \* texts, the keys of m_groups
  Users,        \* [name, groups] records, the values of m_usersByName
  LineSize,     \* CONF_USER_GROUPS_LINE_BUF_SIZE
  BufSizes      \* sizes of the caller's buffer

Comma == <<",", " ">>
NewLine == <<"\n">>
Arrow == <<" ", "-", ">", " ">>
None == <<"(", "n", "o", "n", "e", ")">>

ASSUME ListingAssumption ==
  /\ {Comma, NewLine, Arrow, None} \subseteq Seq(Chars)
  /\ GroupNames \subseteq Seq(Chars)
  /\ Users \subseteq [name: Seq(Chars), groups: Seq(GroupNames)]
  /\ LineSize \in Nat \ {0}
  /\ BufSizes \subseteq Nat \ {0}

VARIABLES
  list,      \* which of the two is being made
  bufSize,   \* a_bufSize
  todo,      \* entries HashMap_ForEach has still to visit
  visited,   \* those it has visited, in order
  ctx,       \* FormatGroupListContext, FormatAllUsersContext, and the appender's answer
  itr,       \* the group FormatUserGroupsLine is at, 0 when no line is being made
  line,      \* its buffer, offset and i = 0, for the user visited last
  lines      \* history: what `line' was in the end, for each user visited

listingVars == <<list, bufSize, todo, visited, ctx, itr, line, lines>>

\* The first n characters.
Cut(text, n) == SubSeq(text, 1, IF Len(text) <= n THEN Len(text) ELSE n)

\* `all' and `ends' are history: the text printed so far as it would be with room for
\* everything, and where in it the part that each entry printed ends.
Fresh ==
  [buf |-> << >>, offset |-> 0, first |-> TRUE, more |-> TRUE, all |-> << >>, ends |-> << >>]

Part(c, sep, item) == IF c.first THEN item ELSE sep \o item

\* Faulty: a text that needs the byte of its terminator counts as fitting.
AppendOffByOne(c, size, sep, item) ==
  LET text == Part(c, sep, item)
      room == size - c.offset
  IN  [buf |-> SubSeq(c.buf, 1, c.offset) \o Cut(text, room - 1),
       offset |-> IF Len(text) <= room THEN c.offset + Len(text) ELSE c.offset,
       first |-> FALSE,
       more |-> Len(text) <= room,
       all |-> c.all \o text,
       ends |-> Append(c.ends, Len(c.all \o text))]

\* Faulty: the walk goes on after a text that did not fit.
AppendAndGoOn(c, size, sep, item) ==
  LET text == Part(c, sep, item)
      room == size - c.offset
  IN  [buf |-> SubSeq(c.buf, 1, c.offset) \o Cut(text, room - 1),
       offset |-> IF Len(text) < room THEN c.offset + Len(text) ELSE c.offset,
       first |-> FALSE,
       more |-> TRUE,
       all |-> c.all \o text,
       ends |-> Append(c.ends, Len(c.all \o text))]

\* snprintf() at the offset, and what is made of its result. A text that does not fit
\* stays in the buffer, cut, and ends the walk.
AppendItem(c, size, sep, item) ==
  LET text == Part(c, sep, item)
      room == size - c.offset
  IN  [buf |-> SubSeq(c.buf, 1, c.offset) \o Cut(text, room - 1),
       offset |-> IF Len(text) < room THEN c.offset + Len(text) ELSE c.offset,
       first |-> FALSE,
       more |-> Len(text) < room,
       all |-> c.all \o text,
       ends |-> Append(c.ends, Len(c.all \o text))]

-----------------------------------------------------------------------------
(* The appenders. A line of the user list takes several steps.             *)

FormatAllUsersAndGroups == list = "users" /\ todo \in SUBSET Users

FormatGroupList == list = "groups" /\ todo \in SUBSET GroupNames

ListingInit ==
  /\ FormatAllUsersAndGroups \/ FormatGroupList
  /\ bufSize \in BufSizes
  /\ visited = << >>
  /\ ctx = Fresh
  /\ itr = 0
  /\ line = Fresh
  /\ lines = << >>

\* HashMap_ForEach goes to an entry.
Visit(e) ==
  /\ ctx.more
  /\ itr = 0
  /\ todo' = todo \ {e}
  /\ visited' = Append(visited, e)
  /\ UNCHANGED <<list, bufSize>>

appendGroupName(g) ==
  /\ list = "groups"
  /\ Visit(g)
  /\ ctx' = AppendItem(ctx, bufSize, Comma, g)
  /\ UNCHANGED <<itr, line, lines>>

NamePart(u) == u.name \o Arrow

Fits(u) == Len(NamePart(u)) < LineSize

\* AppendUserGroupsLine skips a user whose name does not fit in a line.
SkipUser(u) ==
  /\ list = "users"
  /\ Visit(u)
  /\ ~Fits(u)
  /\ ctx' = [ctx EXCEPT !.ends = Append(@, Len(ctx.all))]
  /\ lines' = Append(lines, Fresh)
  /\ UNCHANGED <<itr, line>>

\* FormatUserGroupsLine up to the loop over the groups.
FormatUserGroupsLine(u) ==
  LET start == [Fresh EXCEPT !.buf = NamePart(u), !.offset = Len(NamePart(u)),
                             !.all = NamePart(u), !.ends = <<Len(NamePart(u))>>]
  IN  /\ list = "users"
      /\ Visit(u)
      /\ Fits(u)
      /\ line' = IF u.groups = << >> THEN AppendItem(start, LineSize, Comma, None) ELSE start
      /\ itr' = 1
      /\ UNCHANGED <<ctx, lines>>

Groups == visited[Len(visited)].groups

\* The body of the loop.
FormatGroupName ==
  /\ itr > 0
  /\ itr \in DOMAIN Groups
  /\ line.more
  /\ line' = AppendItem(line, LineSize, Comma, Groups[itr])
  /\ itr' = itr + 1
  /\ UNCHANGED <<list, bufSize, todo, visited, ctx, lines>>

\* AppendUserGroupsLine, once it has the line.
AppendUserGroupsLine ==
  /\ itr > 0
  /\ itr \in DOMAIN Groups => ~line.more
  /\ ctx' = AppendItem(ctx, bufSize, NewLine, line.buf)
  /\ lines' = Append(lines, line)
  /\ itr' = 0
  /\ UNCHANGED <<list, bufSize, todo, visited, line>>

ListingNext ==
  \/ \E e \in todo : appendGroupName(e) \/ SkipUser(e) \/ FormatUserGroupsLine(e)
  \/ FormatGroupName
  \/ AppendUserGroupsLine

ListingSpec == ListingInit /\ [][ListingNext]_listingVars

-----------------------------------------------------------------------------
(* Properties.                                                             *)

\* `all' is the parts one after the other, and `ends' says where each one ends.
EndOf(ends, i) == IF i = 0 THEN 0 ELSE ends[i]

LaidEndToEnd(all, ends, parts) ==
  /\ Len(ends) = Len(parts)
  /\ Len(all) = EndOf(ends, Len(ends))
  /\ \A i \in DOMAIN parts :
       /\ ends[i] = EndOf(ends, i - 1) + Len(parts[i])
       /\ \A k \in DOMAIN parts[i] : all[EndOf(ends, i - 1) + k] = parts[i][k]

\* The parts of a user's line: the name, and the groups or "(none)".
LineParts(u) ==
  IF u.groups = << >> THEN <<NamePart(u), None>>
  ELSE [i \in 1 .. Len(u.groups) + 1 |->
          IF i = 1 THEN NamePart(u)
          ELSE IF i = 2 THEN u.groups[1] ELSE Comma \o u.groups[i - 1]]

\* The line of u is the text of its parts, cut once at the size of the line, and parts
\* are left out only when it is full.
LineIsCut(u, l) ==
  /\ l.buf = Cut(l.all, LineSize - 1)
  /\ Len(l.ends) <= Len(LineParts(u))
  /\ LaidEndToEnd(l.all, l.ends, SubSeq(LineParts(u), 1, Len(l.ends)))
  /\ Len(l.ends) < Len(LineParts(u)) => Len(l.buf) = LineSize - 1

Shown(i) == list = "groups" \/ Fits(visited[i])

\* What the i-th entry visited adds to the listing.
ListPart(i) ==
  LET sep == IF list = "groups" THEN Comma ELSE NewLine
      item == IF list = "groups" THEN visited[i] ELSE lines[i].buf
  IN  IF ~Shown(i) THEN << >>
      ELSE IF \E j \in 1 .. i - 1 : Shown(j) THEN sep \o item ELSE item

\* "a wire-sized buffer is always safe and never exceeds CHAT_MAX_VALUE"
\* (ServerManager.c:536): text and terminator stay inside the buffer, and the
\* offset inside the text, so that the size passed to the next snprintf(), a
\* difference of two size_t, never wraps or is zero; so too for the line of a user.
ListingFits ==
  /\ Len(ctx.buf) < bufSize /\ ctx.offset <= Len(ctx.buf)
  /\ Len(line.buf) < LineSize /\ line.offset <= Len(line.buf)

\* The listing is the whole text of the entries visited, in this order, cut once at the
\* size of the buffer, and the walk ends early only when it is full; so too every line
\* of a user: nothing is lost, repeated or overwritten where lines and buffer meet
\* (appendGroupName, AppendUserGroupsLine, FormatUserGroupsLine).
ListingIsCut ==
  /\ ctx.buf = Cut(ctx.all, bufSize - 1)
  /\ ~ctx.more => Len(ctx.buf) = bufSize - 1
  /\ itr = 0 => LaidEndToEnd(ctx.all, ctx.ends, [i \in DOMAIN visited |-> ListPart(i)])
  /\ \A i \in DOMAIN lines : Fits(visited[i]) => LineIsCut(visited[i], lines[i])

=============================================================================
