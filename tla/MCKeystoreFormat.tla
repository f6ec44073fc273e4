------------------------ MODULE MCKeystoreFormat ------------------------
(* Short texts over two letters and the delimiters: 97 is "a", 98 is "b". *)
EXTENDS KeystoreFormat

TwoLetterKeys == {<<97>>, <<97, 97>>, <<98>>}

\* "", "a", "ab", "=", "a=b", "=a", " a ", "a  b"
ValuesWithEquals == {<<>>, <<97>>, <<97, 98>>, <<61>>, <<97, 61, 98>>, <<61, 97>>,
                     <<32, 97, 32>>, <<97, 32, 32, 98>>}

==========================================================================
