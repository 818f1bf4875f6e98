------------------------------- MODULE MCCustomer -------------------------------
(* A customer's wallet and a customer's WhatsApp chat, which share no table: *)
(* each behaviour is one of a single part, chosen when it begins.            *)
EXTENDS Wallet, Conversation, TLC

(* Buttons of every message that asks for something lasting.               *)
OlderTaps == {<<"reorder">>, <<"paylast">>, <<"resume">>, <<"expectdone">>, <<"declare_trucks">>, <<"cancelorder:yes">>,
              <<"edit", "quantity">>, <<"confirm", CartToken(EmptyCart)>>}

VARIABLE part
vars == <<part, walletVars, chatVars>>

InitCustomer ==
  /\ part \in {"wallet", "chat"} /\ Init /\ InitChat
  /\ part = "chat" => \A o \in Orders : hold[o] = NoHold
  /\ part = "chat" => \A k \in Rows : Booked(k) => row[k].amt = 1
NextCustomer ==
  \/ part = "wallet" /\ WalletNext /\ UNCHANGED <<part, chatVars>>
  \/ part = "chat" /\ NextChat /\ UNCHANGED <<part, walletVars>>
SpecCustomer == InitCustomer /\ [][NextCustomer]_vars

(* Bounds: the wallet stops where the books are off.  Of the chat's age,    *)
(* the account, the prices and the payments one is unusual at a time;       *)
(* trucks are listed for the first order only; and past a delivery order no *)
(* further one is put together.                                             *)
Unusual == Cardinality({x \in {"age", "account", "prices", "money"} :
  \/ x = "age" /\ lapsed
  \/ x = "account" /\ account = "barred"
  \/ x = "prices" /\ catalog # Depots \X Products
  \/ x = "money" /\ notes \cup untold # {}})
SecondOrderShort ==
  placed # <<>> => /\ ~chat.cart.declare
                   /\ chat.state \in Building \cup {"MENU"} => placed[1].type = "pickup"
Bound == IF part = "wallet" THEN Balanced ELSE Unusual <= 1 /\ SecondOrderShort

Symmetry == Permutations(Customers) \cup Permutations(Screens)
================================================================================
