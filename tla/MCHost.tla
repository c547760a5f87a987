------------------------------- MODULE MCHost -------------------------------
EXTENDS Host

Element(k, v) == [key |-> k, value |-> v, checked |-> FALSE, disabled |-> FALSE]

MCDoms == {<<Element("a", 1), Element("a", 2)>>,
           <<Element("a", 2), Element("b", 2), Element("a", 2)>>}

Request(m, w) == [method |-> m, window |-> w, ref |-> None, params |-> "named"]

MCStories ==
  {<<Request("record.start", None), Request("click", None),
     Request("click", "settings"), Request("record.stop", None)>>,
   <<Request("record.start", None), Request("dblclick", None),
     Request("record.add", None), Request("record.stop", None)>>,
   <<Request("snapshot", None), Request("diff", None), Request("diff", None)>>,
   <<Request("snapshot", "settings"), Request("diff", None), Request("diff", "settings")>>,
   <<Request("other", None), Request("ping", None), Request("video.stop", None),
     [Request("wait", None) EXCEPT !.params = "untimed"]>>}
  \cup {<<[Request("diff", None) EXCEPT !.ref = d], Request("click", None),
          Request("diff", None)>> : d \in MCDoms}

\* One connection replays as recorded, the other in a window of its own choice.
MCOverride == [c \in Clients |-> IF c = CHOOSE d \in Clients : TRUE THEN "settings" ELSE None]

MCAdded == [action |-> "wait", window |-> None, id |-> 0, before |-> {}, hit |-> None]
=============================================================================
