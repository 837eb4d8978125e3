----------------------------- MODULE MCDispatch -----------------------------
(* Classes that differ in what meets what: with and without namesakes, of   *)
(* the other kind, with other arguments, with copies for default arguments. *)
EXTENDS Dispatch

Method(kind, type, text) == [kind |-> kind, type |-> type, text |-> text, cloned |-> FALSE]
Clone(m, text) == [m EXCEPT !.text = text, !.cloned = TRUE]

add      == <<"add", "(", "int", ",", "QString", ")">>
addOne   == <<"add", "(", "int", ")">>
addLater == <<"add", "(", "QObject*", ",", "const char*", ",", "int", ",", "QString", ")">>
ping     == <<"ping", "(", ")">>
pingLater == <<"ping", "(", "QObject*", ",", "char*", ")">>
toldAll     == <<"toldAll", "(", "int", ",", "QVariant", ")">>

Of(type, texts) == [i \in DOMAIN texts |-> Method("signal", type, texts[i])]
Slots(type, texts) == [i \in DOMAIN texts |-> Method("slot", type, texts[i])]

SomeClientClasses ==
  { Of("ReturnValue", <<add, addLater>>) \o Of("Event", <<toldAll>>),
    Of("ReturnValue", <<pingLater, add>>) \o <<Clone(Method("signal", "ReturnValue", add), addOne)>>
      \o Slots("ReturnValue", <<ping, toldAll>>),
    Of("Event", <<ping, toldAll>>) \o Of("void", <<addOne>>) \o Of("ReturnValue", <<addLater>>)
      \o Slots("void", <<add>>) }

SomeServerClasses ==
  { Slots("ReturnValue", <<add, addLater, ping>>) \o Of("Event", <<toldAll>>),
    Slots("ReturnValue", <<addLater>>) \o Of("CallbackValue", <<pingLater>>)
      \o Of("Event", <<addOne, ping>>),
    Slots("ReturnValue", <<add>>) \o <<Clone(Method("slot", "ReturnValue", add), addOne)>>
      \o Slots("void", <<ping>>) \o Slots("ReturnValue", <<pingLater>>)
      \o Of("CallbackValue", <<toldAll, addLater>>) }
=============================================================================
