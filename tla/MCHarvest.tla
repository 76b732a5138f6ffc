------------------------------- MODULE MCHarvest -------------------------------
(* Six records: two share an id, one is deleted, one has an id in its header only; as     *)
(* finding aids two have no id, one has a component without did, and one gives an id twice *)
(* that is also made for a third component.                                               *)
EXTENDS Harvest

Component(parent, did, given) == [parent |-> parent, did |-> did, given |-> given]
Record(deleted, header, first, second, components) ==
  [deleted |-> deleted, header |-> header, first |-> first, second |-> second,
   components |-> components]

MCDescribed ==
  << Record(FALSE, <<11>>, <<1>>, <<>>,
            <<Component(0, TRUE, <<1>>), Component(1, TRUE, <<>>), Component(2, TRUE, <<>>),
              Component(1, FALSE, <<2>>), Component(4, TRUE, <<>>)>>),
     Record(TRUE, <<12>>, <<>>, <<>>, <<>>),
     Record(FALSE, <<13>>, <<3>>, <<>>, <<Component(0, TRUE, <<>>), Component(1, TRUE, <<>>)>>),
     Record(FALSE, <<14>>, <<1>>, <<>>, <<Component(0, TRUE, <<>>)>>),
     Record(FALSE, <<15>>, <<>>, <<5>>, <<Component(0, FALSE, <<5>>)>>),
     Record(FALSE, <<16>>, <<6>>, <<>>,
            <<Component(0, TRUE, <<6>>), Component(1, TRUE, <<>>), Component(1, TRUE, <<6, 1>>),
              Component(1, TRUE, <<6, 1>>)>>) >>
=============================================================================
