------------------------ MODULE MCAssignmentAuthoring ------------------------
(***************************************************************************)
(* Instances of AssignmentAuthoring for TLC: a week of two areas typed in  *)
(* the other order, and a stored draft with an upload, a link and an area  *)
(* the page does not know.                                                 *)
(***************************************************************************)
EXTENDS AssignmentAuthoring

New(id, kind, url, file) ==
  [id |-> id, kind |-> kind, name |-> "text", url |-> url, file |-> file, existing |-> FALSE]

TypedItem(id, area, resources) ==
  [ id |-> id, area |-> area, title |-> "text", mode |-> "practice_days", target |-> 6,
    resources |-> resources ]

TypedDrafts ==
  {[ title |-> "text", start |-> 1, notices |-> <<>>,
     items |-> << TypedItem(1, 2, << New(11, "external_link", "https", "none"),
                                     New(12, "upload", "none", "score") >>),
                  TypedItem(2, 1, << New(21, "upload", "none", "tape") >>) >> ],
   [ title |-> "text", start |-> 1, notices |-> << [id |-> 5, title |-> "text", location |-> "blank"] >>,
     items |-> << TypedItem(7, 1, <<>>),
                  TypedItem(6, 1, << New(61, "upload", "none", "tape"),
                                     New(62, "upload", "none", "empty") >>) >> ]}

StoredItem(id, area, resources) ==
  [ id |-> id, area |-> area, title |-> "text", mode |-> "one_time", target |-> 0,
    resources |-> resources ]

StoredDrafts ==
  {[ status |-> "draft", title |-> "text", start |-> 1, notices |-> <<>>,
     sections |->
       << [ area |-> 9, items |-> << StoredItem(3, 9,
              { [position |-> 1, id |-> 31, kind |-> "upload", name |-> "text", holds |-> "scan"],
                [position |-> 2, id |-> 32, kind |-> "youtube", name |-> "text", holds |-> "youtube"]
              }) >> ] >> ]}
=============================================================================
