-------------------------------- MODULE MCKby --------------------------------
(* Instances of the v3.0 control plane.                                    *)
EXTENDS Kby

MCTwo == {1, 2}

\* mTCP may take or refuse the DEL of a descriptor that is not in the epoll set.
MCEitherWay == {0, -1}

\* The first terminal comes back once.
MCOneComesBack == [u \in MCTwo |-> IF u = 1 THEN 2 ELSE 1]

\* Each attaches once.
MCOnce == [u \in MCTwo |-> 1]
=============================================================================
