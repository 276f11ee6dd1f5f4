---------------------------- MODULE ReedSolomon ----------------------------
(***************************************************************************)
(* The Reed-Solomon coder (rs.cpp, berlekamp.cpp, galois.h) over GF(256).  *)
(* Bytes are numbers, polynomials are functions of the exponent; npar is   *)
(* the number of parity bytes, and maxdeg the size that the arrays of the  *)
(* code have for it.                                                       *)
(***************************************************************************)
EXTENDS Integers, FiniteSets, Sequences

maxdeg(npar) == 2 * npar

-----------------------------------------------------------------------------
\* The exclusive or of two bytes, by halves.
Xor4 == [a \in 0 .. 15 |-> [b \in 0 .. 15 |->
           LET bit(i) == IF (a \div i) % 2 = (b \div i) % 2 THEN 0 ELSE i
           IN  bit(1) + bit(2) + bit(4) + bit(8)]]
a \oplus b == 16 * Xor4[a \div 16][b \div 16] + Xor4[a % 16][b % 16]

XorSum(f, n) ==
    LET sum[i \in 0 .. n] == IF i = 0 THEN 0 ELSE sum[i - 1] \oplus f[i - 1]
    IN  sum[n]

\* Galois::exp, the powers of x modulo x^8+x^4+x^3+x^2+1, and Galois::log.
Powers ==
    << 1, 2, 4, 8, 16, 32, 64, 128, 29, 58, 116, 232, 205, 135, 19, 38, 76, 152,
       45, 90, 180, 117, 234, 201, 143, 3, 6, 12, 24, 48, 96, 192, 157, 39,
       78, 156, 37, 74, 148, 53, 106, 212, 181, 119, 238, 193, 159, 35, 70,
       140, 5, 10, 20, 40, 80, 160, 93, 186, 105, 210, 185, 111, 222, 161,
       95, 190, 97, 194, 153, 47, 94, 188, 101, 202, 137, 15, 30, 60, 120,
       240, 253, 231, 211, 187, 107, 214, 177, 127, 254, 225, 223, 163, 91,
       182, 113, 226, 217, 175, 67, 134, 17, 34, 68, 136, 13, 26, 52, 104,
       208, 189, 103, 206, 129, 31, 62, 124, 248, 237, 199, 147, 59, 118,
       236, 197, 151, 51, 102, 204, 133, 23, 46, 92, 184, 109, 218, 169, 79,
       158, 33, 66, 132, 21, 42, 84, 168, 77, 154, 41, 82, 164, 85, 170, 73,
       146, 57, 114, 228, 213, 183, 115, 230, 209, 191, 99, 198, 145, 63,
       126, 252, 229, 215, 179, 123, 246, 241, 255, 227, 219, 171, 75, 150,
       49, 98, 196, 149, 55, 110, 220, 165, 87, 174, 65, 130, 25, 50, 100,
       200, 141, 7, 14, 28, 56, 112, 224, 221, 167, 83, 166, 81, 162, 89,
       178, 121, 242, 249, 239, 195, 155, 43, 86, 172, 69, 138, 9, 18, 36,
       72, 144, 61, 122, 244, 245, 247, 243, 251, 235, 203, 139, 11, 22, 44,
       88, 176, 125, 250, 233, 207, 131, 27, 54, 108, 216, 173, 71, 142 >>
Logs ==
    << 0, 1, 25, 2, 50, 26, 198, 3, 223, 51, 238, 27, 104, 199, 75, 4, 100, 224,
       14, 52, 141, 239, 129, 28, 193, 105, 248, 200, 8, 76, 113, 5, 138,
       101, 47, 225, 36, 15, 33, 53, 147, 142, 218, 240, 18, 130, 69, 29,
       181, 194, 125, 106, 39, 249, 185, 201, 154, 9, 120, 77, 228, 114, 166,
       6, 191, 139, 98, 102, 221, 48, 253, 226, 152, 37, 179, 16, 145, 34,
       136, 54, 208, 148, 206, 143, 150, 219, 189, 241, 210, 19, 92, 131, 56,
       70, 64, 30, 66, 182, 163, 195, 72, 126, 110, 107, 58, 40, 84, 250,
       133, 186, 61, 202, 94, 155, 159, 10, 21, 121, 43, 78, 212, 229, 172,
       115, 243, 167, 87, 7, 112, 192, 247, 140, 128, 99, 13, 103, 74, 222,
       237, 49, 197, 254, 24, 227, 165, 153, 119, 38, 184, 180, 124, 17, 68,
       146, 217, 35, 32, 137, 46, 55, 63, 209, 91, 149, 188, 207, 205, 144,
       135, 151, 178, 220, 252, 190, 97, 242, 86, 211, 171, 20, 42, 93, 158,
       132, 60, 57, 83, 71, 109, 65, 162, 31, 45, 67, 216, 183, 123, 164,
       118, 196, 23, 73, 236, 127, 12, 111, 246, 108, 161, 59, 82, 41, 157,
       85, 170, 251, 96, 134, 177, 187, 204, 62, 90, 203, 89, 95, 176, 156,
       169, 160, 81, 11, 245, 22, 235, 122, 117, 44, 215, 79, 174, 213, 233,
       230, 231, 173, 232, 116, 214, 244, 234, 168, 80, 88, 175 >>
TimesX(a) == IF a < 128 THEN 2 * a ELSE (2 * a - 256) \oplus 29
ASSUME TablesAssumption ==
    /\ Powers[1] = 1 /\ \A i \in 1 .. 255 : Powers[(i % 255) + 1] = TimesX(Powers[i])
    /\ \A a \in 1 .. 255 : Logs[a] \in 0 .. 254 /\ Powers[Logs[a] + 1] = a

gexp(i) == Powers[(i % 255) + 1]

gmult(a, b) == IF a = 0 \/ b = 0 THEN 0 ELSE gexp(Logs[a] + Logs[b])
ginv(a) == IF a = 0 THEN gexp(0) ELSE gexp(255 - Logs[a])

-----------------------------------------------------------------------------
\* Berlekamp: arithmetic of polynomials.
Degrees(npar) == 0 .. maxdeg(npar) - 1
Coefficient(p, i) == IF i \in DOMAIN p THEN p[i] ELSE 0
Constant(c, npar) == [i \in Degrees(npar) |-> IF i = 0 THEN c ELSE 0]
add_polys(p, q) == [i \in DOMAIN p |-> p[i] \oplus q[i]]
scale_poly(c, p) == [i \in DOMAIN p |-> gmult(c, p[i])]
mul_z_poly(p) == [i \in DOMAIN p |-> IF i = 0 THEN 0 ELSE p[i - 1]]
mult_polys(p, q) ==
    LET d == Cardinality(DOMAIN p)
    IN  [i \in 0 .. 2 * d - 1 |->
           XorSum([j \in DOMAIN p |-> gmult(p[j], Coefficient(q, i - j))], d)]
Value(p, n, e) == XorSum([j \in 0 .. n - 1 |-> gmult(p[j], gexp(e * j))], n)

\* ReedSolomon::compute_genpoly: the product of x + a^i for i = 1 .. npar.
compute_genpoly(npar) ==
    LET root(i) == [j \in Degrees(npar) |->
                      IF j = 0 THEN gexp(i) ELSE IF j = 1 THEN 1 ELSE 0]
        product[i \in 0 .. npar] ==
            IF i = 0 THEN Constant(1, npar)
            ELSE LET p == mult_polys(root(i), product[i - 1])
                 IN  [j \in Degrees(npar) |-> p[j]]
    IN  product[npar]

\* ReedSolomon::encode_data and build_codeword: the message and, last register
\* first, what is left of it in the shift register.  msg is a function on
\* 0 .. k - 1, the codeword one on 0 .. k + npar - 1.
Shift(lfsr, byte, genpoly, npar) ==
    LET dbyte == byte \oplus lfsr[npar - 1]
    IN  [j \in 0 .. npar - 1 |->
           gmult(genpoly[j], dbyte) \oplus (IF j = 0 THEN 0 ELSE lfsr[j - 1])]
encode_data(msg, k, genpoly, npar) ==
    LET lfsr[i \in 0 .. k] == IF i = 0 THEN [j \in 0 .. npar - 1 |-> 0]
                              ELSE Shift(lfsr[i - 1], msg[i - 1], genpoly, npar)
        parity == lfsr[k]
    IN  [i \in 0 .. k + npar - 1 |-> IF i < k THEN msg[i] ELSE parity[npar - 1 - (i - k)]]

\* ReedSolomon::decode_data: the codeword's value at a^(j+1), by Horner's rule.
decode_data(data, nbytes, npar) ==
    LET sum(j) == LET s[i \in 0 .. nbytes] ==
                        IF i = 0 THEN 0 ELSE data[i - 1] \oplus gmult(gexp(j + 1), s[i - 1])
                  IN  s[nbytes]
    IN  [j \in Degrees(npar) |-> IF j < npar THEN sum(j) ELSE 0]

-----------------------------------------------------------------------------
\* Berlekamp::init_gamma: the product of 1 - z a^e over the erasures e.
init_gamma(erasures, npar) ==
    LET g[i \in 0 .. Len(erasures)] ==
            IF i = 0 THEN Constant(1, npar)
            ELSE add_polys(g[i - 1], mul_z_poly(scale_poly(gexp(erasures[i]), g[i - 1])))
    IN  g[Len(erasures)]

compute_discrepancy(lambda, syn, L, n) ==
    XorSum([i \in 0 .. L |-> gmult(lambda[i], syn[n - i])], L + 1)

\* One round of Modified_Berlekamp_Massey.
MasseyRound(m, syn, n) ==
    LET d == compute_discrepancy(m.psi, syn, m.L, n)
        grows == d # 0 /\ m.L < n - m.k
    IN  [psi |-> IF d = 0 THEN m.psi ELSE add_polys(m.psi, scale_poly(d, m.D)),
         D   |-> mul_z_poly(IF grows THEN scale_poly(ginv(d), m.psi) ELSE m.D),
         L   |-> IF grows THEN n - m.k ELSE m.L,
         k   |-> IF grows THEN n - m.L ELSE m.k]
Modified_Berlekamp_Massey(syn, erasures, npar) ==
    LET gamma == init_gamma(erasures, npar)
        NErasures == Len(erasures)
        m[n \in NErasures .. npar] ==
            IF n = NErasures
            THEN [psi |-> gamma, D |-> mul_z_poly(gamma), L |-> NErasures, k |-> -1]
            ELSE MasseyRound(m[n - 1], syn, n - 1)
    IN  IF NErasures >= npar THEN gamma ELSE m[npar].psi

compute_modified_omega(lambda, syn, npar) ==
    LET product == mult_polys(lambda, syn)
    IN  [i \in Degrees(npar) |-> IF i < npar THEN product[i] ELSE 0]

\* Berlekamp::Find_Roots
Find_Roots(lambda, npar) == {255 - r : r \in {q \in 1 .. 255 : Value(lambda, npar + 1, q) = 0}}

\* The error at the location e: Omega over the derivative of Lambda.
Magnitude(lambda, omega, e, npar) ==
    LET denom == XorSum([j \in Degrees(npar) |->
                    IF j % 2 = 1 THEN gmult(lambda[j], gexp((255 - e) * (j - 1))) ELSE 0],
                    maxdeg(npar))
    IN  gmult(Value(omega, maxdeg(npar), 255 - e), ginv(denom))

\* Berlekamp::correct_errors_erasures; what cannot be corrected stays.
correct_errors_erasures(codeword, csize, erasures, syn, npar) ==
    LET lambda == Modified_Berlekamp_Massey(syn, erasures, npar)
        omega == compute_modified_omega(lambda, syn, npar)
        locs == Find_Roots(lambda, npar)
    IN  IF Cardinality(locs) \in 1 .. npar /\ \A e \in locs : e < csize
        THEN [i \in 0 .. csize - 1 |->
                IF csize - i - 1 \in locs
                THEN codeword[i] \oplus Magnitude(lambda, omega, csize - i - 1, npar)
                ELSE codeword[i]]
        ELSE codeword
=============================================================================
